---- MODULE Spec2Model ----
(***************************************************************************)
(* Verification model of the flipper-rf-lab analysis core.                 *)
(*                                                                         *)
(*   SpecCodec      storage/compression.c (delta, RLE, pulse codec)        *)
(*   SpecFpCapture  analysis/fingerprinting.c (capture state machine,      *)
(*                  fingerprint generation)                                *)
(*   SpecFpMatch    analysis/fingerprinting.c (device database, matching)  *)
(*   SpecIngest     ingest buffers of protocol_infer.c, threat_model.c and *)
(*                  the streaming data set of clustering.c                 *)
(*   SpecFpDevices  analysis/fingerprinting.c (device identifiers)         *)
(*   SpecThreads    the capture and the analysis thread over the engines   *)
(*   SpecKMeans     analysis/clustering.c (clustering_kmeans)              *)
(*   SpecStreaming  analysis/clustering.c (streaming clustering)           *)
(*   SpecThreat     threat_model.c (assessment, report, quick assessment)  *)
(*   SpecWelford    core/math/statistics.c (Welford accumulator)           *)
(*   SpecHistogram  core/math/statistics.c (histogram)                     *)
(*   SpecFixedMul   core/math/fixed_point.c (fixed_mul)                    *)
(*   SpecRing       analysis/fingerprinting.c (temporal history ring)      *)
(*   SpecTemporal   analysis/fingerprinting.c (temporal records and the    *)
(*                  device table)                                          *)
(*   SpecAnalysis   analysis/protocol_infer.c (analysis pipeline)          *)
(*                                                                         *)
(* C positions are kept 0-based; a TLA+ sequence s holds C element i at    *)
(* s[i + 1].                                                               *)
(***************************************************************************)
EXTENDS Integers, Sequences, FiniteSets, TLC

VARIABLES
    c_op,           \* codec harness: last codec operation applied
    c_in,           \* codec harness: input byte sequence
    c_enc,          \* codec harness: encoder output (returned length = Len)
    c_dec,          \* codec harness: decoder output
    p_in,           \* pulse codec: input Pulse_t sequence
    p_max_output,   \* pulse codec: max_output given to compress_pulse_sequence
    p_max_pulses,   \* pulse codec: max_pulses given to decompress_pulse_sequence
    p_enc,          \* pulse codec: bytes written by compress_pulse_sequence
    p_dec,          \* pulse codec: pulses written by decompress_pulse_sequence
    capture_state,  \* fingerprinting.c: static FingerprintCaptureState_t
    fp_op,          \* fingerprinting: the last operation invoked
    fp_path,        \* fingerprinting: values stored to capture_state.state by it
    fp_out,         \* fingerprinting: caller's record after generate_fingerprint
    fault,          \* TRUE once the processor has taken a fault (firmware halted)
    device_database,   \* fingerprinting.c: static DeviceDatabase_t
    temporal_records,  \* fingerprinting.c: static TemporalDeviceRecord_t[]
    db_op,          \* device database: the last operation invoked
    m_query,        \* match: the fingerprint looked up
    m_id_in,        \* match: *matched_device_id before the call
    m_id_out,       \* match: *matched_device_id after the call
    m_confidence,   \* match: the value returned
    m_matched,      \* match: *matched_fingerprint after the call
    infer_state,    \* protocol_infer.c: static ProtocolInferState_t
    analysis_context,          \* threat_model.c: static ThreatAnalysisContext_t
    threat_model_initialized,  \* threat_model.c: static bool
    streaming,      \* clustering.c: streaming_dataset, streaming_result, streaming_active
    ing_op,         \* ingest: the last operation invoked
    ing_entry_count,   \* ingest: the buffer's count when the last add was entered
    cap_pc,         \* RF capture thread: its position
    cap_result,     \* RF capture thread: the KMeansResult_t clustering_kmeans returned
    ana_pc,         \* analysis thread: its position
    ana_snapshot,   \* analysis thread: the KMeansResult_t being returned to it
    ana_returned,   \* analysis thread: TRUE once a query has returned ana_snapshot
    published,      \* the values streaming_result held between assignments
    km_data,        \* k-means: the points of the Dataset_t given to clustering_kmeans
    km_k,           \* k-means: the k given to clustering_kmeans
    km_result,      \* k-means: the KMeansResult_t returned
    km_op,          \* k-means: the last operation invoked
    st_returned,    \* streaming: the value returned by clustering_get_streaming_result
    st_last_rerun,  \* streaming: the result of the latest k-means run, if any
    st_op,          \* streaming: the last operation invoked
    threat_analysis,  \* threat_model.c: the analysis fields of analysis_context
    quick_result,   \* threat model: the result of threat_model_quick_assess
    th_stream,      \* threat model: which stream of frames is being received
    th_report,      \* threat model: the report returned by threat_model_get_report
    th_op,          \* threat model: the last operation invoked
    welford,        \* the WelfordState_t under test
    wf_samples,     \* the samples passed to welford_add_sample since welford_init
    hist,           \* the Histogram_t under test
    fm_a,           \* the last argument of fixed_mul(a, FIXED_ONE)
    fm_result,      \* its result
    stat_op,        \* the last statistics call
    tr_matched,     \* the fingerprints matched with confidence >= Low, oldest first
    tr_owner,       \* for each temporal record, the table entry whose match created it
    mark_histogram, \* protocol_infer.c: infer_state.mark_histogram
    space_histogram,\* protocol_infer.c: infer_state.space_histogram
    clusters,       \* protocol_infer.c: infer_state.clusters
    cluster_count,  \* protocol_infer.c: infer_state.cluster_count
    hypothesis,     \* protocol_infer.c: infer_state.hypothesis
    pi_stream,      \* protocol inference: which stream of pulses is being received
    pi_runs,        \* protocol inference: calls of protocol_infer_analyze since the last reset
    pi_op,          \* protocol inference: the last operation invoked
    pi_bins         \* protocol inference: the bins[] indexes the latest histogram build incremented

codecVars == <<c_op, c_in, c_enc, c_dec, p_in, p_max_output, p_max_pulses, p_enc, p_dec>>
fpVars == <<capture_state, fp_op, fp_path, fp_out, fault>>

dbVars == <<device_database, temporal_records, db_op, m_query, m_id_in, m_id_out,
            m_confidence, m_matched>>

engineVars == <<infer_state, streaming>>
ingestVars == <<analysis_context, threat_model_initialized, ing_op, ing_entry_count>>
threadVars == <<cap_pc, cap_result, ana_pc, ana_snapshot, ana_returned, published>>
kmVars == <<km_data, km_k, km_result, km_op>>
streamVars == <<st_returned, st_last_rerun, st_op>>
threatVars == <<threat_analysis, quick_result, th_stream, th_report, th_op>>
statVars == <<welford, wf_samples, hist, fm_a, fm_result, stat_op>>
ringVars == <<tr_matched, tr_owner>>
analysisVars == <<mark_histogram, space_histogram, clusters, cluster_count, hypothesis,
                  pi_stream, pi_runs, pi_op, pi_bins>>

otherVars == <<kmVars, streamVars, threatVars, statVars, ringVars, analysisVars>>

vars == <<codecVars, fpVars, dbVars, engineVars, ingestVars, threadVars, otherVars>>
nonCodecVars == <<fpVars, dbVars, engineVars, ingestVars, threadVars, otherVars>>
nonFpVars == <<codecVars, dbVars, engineVars, ingestVars, threadVars, otherVars>>
nonDbVars == <<codecVars, fpVars, engineVars, ingestVars, threadVars, otherVars>>
nonIngestVars == <<codecVars, fpVars, dbVars, threadVars, otherVars>>
nonThreadVars == <<codecVars, fpVars, dbVars, ingestVars, otherVars>>
nonKmVars == <<codecVars, fpVars, dbVars, engineVars, ingestVars, threadVars, streamVars,
                threatVars, statVars, ringVars, analysisVars>>
nonStreamVars == <<codecVars, fpVars, dbVars, ingestVars, threadVars, kmVars, threatVars,
                    statVars, ringVars, analysisVars>>
nonThreatVars == <<codecVars, fpVars, dbVars, engineVars, threadVars, kmVars, streamVars,
                    statVars, ringVars, analysisVars>>
nonStatVars == <<codecVars, fpVars, dbVars, engineVars, ingestVars, threadVars, kmVars,
                  streamVars, threatVars, ringVars, analysisVars>>
nonRingVars == <<codecVars, fpVars, engineVars, ingestVars, threadVars, kmVars,
                  streamVars, threatVars, statVars, analysisVars>>
nonAnalysisVars == <<codecVars, dbVars, ingestVars, threadVars, kmVars, streamVars,
                      threatVars, statVars, ringVars>>

(***************************************************************************)
(* Machine arithmetic                                                      *)
(***************************************************************************)
ToU8(x) == x % 256
ToU16(x) == x % 65536
ToI8(x) == LET u == x % 256 IN IF u >= 128 THEN u - 256 ELSE u
ToI16(x) == LET u == x % 65536 IN IF u >= 32768 THEN u - 65536 ELSE u
\* 32-bit quantities are held as integers in -2^31 .. 2^31 - 1 (the range of
\* the checker's integers); AddI32 is two's-complement int32_t addition.
AddI32(a, b) ==
    LET max == 2147483647
    IN IF a >= 0 /\ b >= 0 /\ a > max - b
       THEN ((a - max) - 1) + ((b - max) - 1)
       ELSE IF a < 0 /\ b < 0 /\ a < ((0 - max) - 1) - b
       THEN ((a + max) + 1) + ((b + max) + 1)
       ELSE a + b
\* (b0 << 24) | (b1 << 16) | (b2 << 8) | b3 as an int
I32FromBytes(b0, b1, b2, b3) == ToI8(b0) * 16777216 + b1 * 65536 + b2 * 256 + b3
Min(a, b) == IF a < b THEN a ELSE b
Max(a, b) == IF a > b THEN a ELSE b
Abs(a) == IF a < 0 THEN -a ELSE a

\* n applications of a loop body to a loop state; the body is the identity
\* once the loop condition is false.  Halving keeps the evaluation depth at
\* log2(n), and binding the intermediate state makes it a value.
RECURSIVE Iterate(_, _, _)
Iterate(Body(_), st, n) ==
    IF n = 0 THEN st
    ELSE IF n = 1 THEN Body(st)
    ELSE CHOOSE r \in { Iterate(Body, mid, n - (n \div 2)) :
                            mid \in { Iterate(Body, st, n \div 2) } } : TRUE

\* Body applied to the value of v: v is evaluated once, however often Body
\* uses it.
With(v, Body(_)) == CHOOSE r \in { Body(x) : x \in {v} } : TRUE

\* An array of n elements, element i (from 1) being At(i), as a sequence.
ArrayOf(At(_), n) ==
    LET Body(st) == Append(st, At(Len(st) + 1))
    IN Iterate(Body, <<>>, n)

(***************************************************************************)
(* storage/compression.h                                                   *)
(***************************************************************************)
COMPRESSION_MAX_BLOCK_SIZE == 1024
RLE_MAX_RUN_LENGTH == 255

(***************************************************************************)
(* storage/compression.c : delta codec (8 bit)                             *)
(***************************************************************************)
\* One pass of the for loop of delta_encode.
DeltaEncodeBody(input, st) ==
    IF ~(st.i < Len(input) /\ Len(st.out) < COMPRESSION_MAX_BLOCK_SIZE) THEN st
    ELSE LET delta == ToI16(input[st.i + 1] - st.last)
             out2 == IF delta >= -128 /\ delta <= 127
                     THEN Append(st.out, ToU8(delta))
                     ELSE st.out \o <<128, ToU8(delta \div 256), ToU8(delta)>>
         IN [i |-> st.i + 1, out |-> out2, last |-> input[st.i + 1]]

delta_encode(input) ==
    IF Len(input) = 0 THEN <<>>
    ELSE LET B(st) == DeltaEncodeBody(input, st)
         IN Iterate(B, [i |-> 1, out |-> <<input[1]>>, last |-> input[1]],
                    Len(input) - 1).out

\* One pass of the while loop of delta_decode.
DeltaDecodeBody(input, st) ==
    IF ~(st.in_pos < Len(input)) THEN st
    ELSE LET byte == input[st.in_pos + 1]
             p == st.in_pos + 1
         IN IF byte = 128 /\ p + 1 < Len(input)
            THEN LET delta == ToI16(input[p + 1] * 256 + input[p + 2])
                     last2 == ToI16(st.last + delta)
                 IN [in_pos |-> p + 2, out |-> Append(st.out, ToU8(last2)), last |-> last2]
            ELSE LET delta == ToI8(byte)
                     last2 == ToI16(st.last + delta)
                 IN [in_pos |-> p, out |-> Append(st.out, ToU8(last2)), last |-> last2]

delta_decode(input) ==
    IF Len(input) = 0 THEN <<>>
    ELSE LET B(st) == DeltaDecodeBody(input, st)
         IN Iterate(B, [in_pos |-> 1, out |-> <<ToU8(input[1])>>, last |-> input[1]],
                    Len(input) - 1).out

(***************************************************************************)
(* storage/compression.c : run-length codec                                *)
(***************************************************************************)
\* The inner while loop of rle_encode: the length of the run of `symbol`
\* starting at in_pos, counted up to RLE_MAX_RUN_LENGTH.
RleRunLength(input, in_pos) ==
    LET symbol == input[in_pos + 1]
        Stops(k) == \/ ~(in_pos + k < Len(input))
                    \/ input[in_pos + k + 1] # symbol
                    \/ ~(k < RLE_MAX_RUN_LENGTH)
    IN CHOOSE k \in 1..RLE_MAX_RUN_LENGTH :
           Stops(k) /\ \A j \in 1..(k - 1) : ~Stops(j)

\* RleEncodeBody with the escape of a literal 0x00 left out.
RleEncodeBodyNoEscape(input, st) ==
    IF ~(st.in_pos < Len(input) /\ Len(st.out) < COMPRESSION_MAX_BLOCK_SIZE - 2) THEN st
    ELSE LET symbol == input[st.in_pos + 1]
             run_length == RleRunLength(input, st.in_pos)
         IN IF run_length >= 3
            THEN [in_pos |-> st.in_pos + run_length,
                  out |-> st.out \o <<0, run_length, symbol>>]
            ELSE [in_pos |-> st.in_pos + 1, out |-> Append(st.out, symbol)]

\* RleEncodeBody with every literal escaped, whatever its value.
RleEncodeBodyEscapeAll(input, st) ==
    IF ~(st.in_pos < Len(input) /\ Len(st.out) < COMPRESSION_MAX_BLOCK_SIZE - 2) THEN st
    ELSE LET symbol == input[st.in_pos + 1]
             run_length == RleRunLength(input, st.in_pos)
         IN IF run_length >= 3
            THEN [in_pos |-> st.in_pos + run_length,
                  out |-> st.out \o <<0, run_length, symbol>>]
            ELSE [in_pos |-> st.in_pos + 1, out |-> st.out \o <<0, 1, symbol>>]

\* One pass of the outer while loop of rle_encode.
RleEncodeBody(input, st) ==
    IF ~(st.in_pos < Len(input) /\ Len(st.out) < COMPRESSION_MAX_BLOCK_SIZE - 2) THEN st
    ELSE LET symbol == input[st.in_pos + 1]
             run_length == RleRunLength(input, st.in_pos)
         IN IF run_length >= 3
            THEN [in_pos |-> st.in_pos + run_length,
                  out |-> st.out \o <<0, run_length, symbol>>]
            ELSE [in_pos |-> st.in_pos + 1,
                  out |-> IF symbol = 0 THEN st.out \o <<0, 1, symbol>>
                                        ELSE Append(st.out, symbol)]

rle_encode(input) ==
    IF Len(input) = 0 THEN <<>>
    ELSE LET B(st) == RleEncodeBody(input, st)
         IN Iterate(B, [in_pos |-> 0, out |-> <<>>], Len(input)).out

\* One pass of the while loop of rle_decode; brk records a break.
RleDecodeBody(input, st) ==
    IF st.brk \/ ~(st.in_pos < Len(input)) THEN st
    ELSE LET byte == input[st.in_pos + 1]
             p == st.in_pos + 1
         IN IF byte # 0
            THEN [in_pos |-> p, out |-> Append(st.out, byte), brk |-> FALSE]
            ELSE IF p >= Len(input) THEN [st EXCEPT !.in_pos = p, !.brk = TRUE]
            ELSE LET next == input[p + 1]
                     q == p + 1
                 IN IF next = 0
                    THEN [in_pos |-> q, out |-> Append(st.out, 0), brk |-> FALSE]
                    ELSE IF q >= Len(input) THEN [st EXCEPT !.in_pos = q, !.brk = TRUE]
                    ELSE IF next = 1
                    THEN [in_pos |-> q + 1, out |-> Append(st.out, input[q + 1]),
                          brk |-> FALSE]
                    ELSE LET symbol == input[q + 1]
                             room == Max(0, COMPRESSION_MAX_BLOCK_SIZE - Len(st.out))
                             n == Min(next, room)
                         IN [in_pos |-> q + 1,
                             out |-> st.out \o [k \in 1..n |-> symbol],
                             brk |-> FALSE]

rle_decode(input) ==
    LET B(st) == RleDecodeBody(input, st)
    IN Iterate(B, [in_pos |-> 0, out |-> <<>>, brk |-> FALSE], Len(input)).out

(***************************************************************************)
(* storage/compression.c : 16-bit delta codec and pulse-sequence codec     *)
(***************************************************************************)
\* One pass of the for loop of delta_encode_16bit.
DeltaEncode16Body(input, st) ==
    IF ~(st.i < Len(input) /\ Len(st.out) + 1 < COMPRESSION_MAX_BLOCK_SIZE) THEN st
    ELSE LET delta == input[st.i + 1] - st.last
             out2 == IF delta >= -128 /\ delta <= 127
                     THEN Append(st.out, ToU8(delta))
                     ELSE IF delta >= -32768 /\ delta <= 32767
                     THEN st.out \o <<128, ToU8(delta \div 256), ToU8(delta)>>
                     ELSE st.out \o <<129, ToU8(delta \div 16777216), ToU8(delta \div 65536),
                                      ToU8(delta \div 256), ToU8(delta)>>
         IN [i |-> st.i + 1, out |-> out2, last |-> input[st.i + 1]]

delta_encode_16bit(input) ==
    IF Len(input) = 0 THEN <<>>
    ELSE LET B(st) == DeltaEncode16Body(input, st)
         IN Iterate(B, [i |-> 1, out |-> <<input[1] \div 256, input[1] % 256>>,
                        last |-> input[1]], Len(input) - 1).out

\* One pass of the while loop of delta_decode_16bit.
DeltaDecode16Body(input, st) ==
    IF ~(st.in_pos < Len(input)) THEN st
    ELSE LET byte == input[st.in_pos + 1]
             p == st.in_pos + 1
             esc2 == byte = 128 /\ p + 1 < Len(input)
             esc4 == ~esc2 /\ byte = 129 /\ p + 3 < Len(input)
             delta == IF esc2 THEN ToI16(input[p + 1] * 256 + input[p + 2])
                      ELSE IF esc4
                      THEN I32FromBytes(input[p + 1], input[p + 2], input[p + 3], input[p + 4])
                      ELSE ToI8(byte)
             last2 == AddI32(st.last, delta)
         IN [in_pos |-> IF esc2 THEN p + 2 ELSE IF esc4 THEN p + 4 ELSE p,
             out |-> Append(st.out, ToU16(last2)), last |-> last2]

delta_decode_16bit(input) ==
    IF Len(input) < 2 THEN <<>>
    ELSE LET first == input[1] * 256 + input[2]
             B(st) == DeltaDecode16Body(input, st)
         IN Iterate(B, [in_pos |-> 2, out |-> <<ToU16(first)>>, last |-> first],
                    Len(input) - 2).out

\* One pass of the level loop of compress_pulse_sequence.
CompressLevelBody(pulses, max_output, st) ==
    IF ~(st.i < Len(pulses) /\ Len(st.out) < max_output) THEN st
    ELSE IF pulses[st.i + 1].level = st.current_level /\ st.run_length < 255
    THEN [st EXCEPT !.i = st.i + 1, !.run_length = st.run_length + 1]
    ELSE [i |-> st.i + 1,
          out |-> Append(st.out, ToU8(st.run_length * 2 + st.current_level)),
          current_level |-> pulses[st.i + 1].level,
          run_length |-> 1]

\* compress_pulse_sequence: the bytes it stores into output[0 ..], in order;
\* the returned out_pos is the length.  malloc is taken to succeed.
compress_pulse_sequence(pulses, max_output) ==
    IF Len(pulses) = 0 \/ max_output = 0 THEN <<>>
    ELSE LET count == Len(pulses)
             header == <<ToU8(count \div 256), count % 256>>
             widths == [i \in 1..count |-> pulses[i].width_us]
             out1 == header \o delta_encode_16bit(widths)
             B(st) == CompressLevelBody(pulses, max_output, st)
             fin == Iterate(B, [i |-> 1, out |-> out1,
                                current_level |-> pulses[1].level, run_length |-> 1],
                            count - 1)
         IN IF fin.run_length > 0 /\ Len(fin.out) < max_output
            THEN Append(fin.out, ToU8(fin.run_length * 2 + fin.current_level))
            ELSE fin.out

\* One pass of the level loop of decompress_pulse_sequence.  widths is what
\* delta_decode_16bit stored; an element of the malloc'ed array it did not
\* store is uninitialised and reads as `uninit`.
DecompressLevelBody(input, count, widths, uninit, st) ==
    IF ~(Len(st.pulses) < count /\ st.in_pos < Len(input)) THEN st
    ELSE LET packed == input[st.in_pos + 1]
             run_length == packed \div 2
             level == packed % 2
             base == Len(st.pulses)
             n == Min(run_length, count - base)
         IN [in_pos |-> st.in_pos + 1,
             pulses |-> st.pulses \o
                 [k \in 1..n |->
                     [width_us |-> IF base + k <= Len(widths) THEN widths[base + k]
                                   ELSE uninit,
                      level |-> level,
                      timestamp_us |-> 0]]]

\* decompress_pulse_sequence: the pulses it stores into pulses[0 ..]; the
\* returned pulse_idx is the length.
decompress_pulse_sequence(input, max_pulses, uninit) ==
    IF Len(input) < 2 THEN <<>>
    ELSE LET hdr == input[1] * 256 + input[2]
             count == IF hdr > max_pulses THEN max_pulses ELSE hdr
             widths == delta_decode_16bit(SubSeq(input, 3, Len(input)))
             decompressed == Len(widths)
             B(st) == DecompressLevelBody(input, count, widths, uninit, st)
         IN Iterate(B, [in_pos |-> 2 + decompressed, pulses |-> <<>>],
                    Len(input)).pulses

(***************************************************************************)
(* Codec harness: one input, then encode, then decode.                     *)
(***************************************************************************)
MaxLen == 4          \* longest exhaustively enumerated byte input
LongLen == 512       \* length of the patterned long byte inputs
MaxPulses == 3       \* longest enumerated pulse sequence
ByteVals == {0, 1, 128, 255}
WidthVals == {100, 228, 40000}
UninitWidths == {0, 65535}

SeqsUpTo(S, n) == UNION { [1..k -> S] : k \in 0..n }
Repeat(pat, n) == [i \in 1..n |-> pat[((i - 1) % Len(pat)) + 1]]
LongPatterns == { <<0, 1>>, <<1, 255>>, <<1>>, <<0>> }
\* test_data of test_compression: the bytes 0, 1, ..., 99
test_data == [i \in 1..100 |-> i - 1]
ByteInputs ==
    SeqsUpTo(ByteVals, MaxLen) \cup { Repeat(pat, LongLen) : pat \in LongPatterns }
        \cup {test_data}

RECURSIVE Stamp(_, _, _)
Stamp(ws, i, t) ==
    IF i > Len(ws) THEN <<>>
    ELSE <<[width_us |-> ws[i][1], level |-> ws[i][2], timestamp_us |-> t]>>
         \o Stamp(ws, i + 1, t + ws[i][1])
PulseInputs == { Stamp(ws, 1, 0) : ws \in SeqsUpTo(WidthVals \X {0, 1}, MaxPulses) \ {<<>>} }

CodecIdle ==
    /\ c_op = "none" /\ c_in = <<>> /\ c_enc = <<>> /\ c_dec = <<>>
    /\ p_in = <<>> /\ p_max_output = 0 /\ p_max_pulses = 0 /\ p_enc = <<>> /\ p_dec = <<>>

CodecInputs ==
    /\ c_op = "none" /\ c_enc = <<>> /\ c_dec = <<>> /\ p_enc = <<>> /\ p_dec = <<>>
    /\ \/ c_in \in ByteInputs /\ p_in = <<>> /\ p_max_output = 0 /\ p_max_pulses = 0
       \/ c_in = <<>> /\ p_in \in PulseInputs
          /\ p_max_output \in {1, 3, 64} /\ p_max_pulses \in {1, MaxPulses}

DeltaEncode ==
    /\ c_op = "none" /\ p_in = <<>>
    /\ c_enc' = delta_encode(c_in)
    /\ c_op' = "delta_encode"
    /\ UNCHANGED <<c_in, c_dec, p_in, p_max_output, p_max_pulses, p_enc, p_dec>>
    /\ UNCHANGED nonCodecVars

DeltaDecode ==
    /\ c_op = "delta_encode"
    /\ c_dec' = delta_decode(c_enc)
    /\ c_op' = "delta_decode"
    /\ UNCHANGED <<c_in, c_enc, p_in, p_max_output, p_max_pulses, p_enc, p_dec>>
    /\ UNCHANGED nonCodecVars

RleEncode ==
    /\ c_op = "none" /\ p_in = <<>>
    /\ c_enc' = rle_encode(c_in)
    /\ c_op' = "rle_encode"
    /\ UNCHANGED <<c_in, c_dec, p_in, p_max_output, p_max_pulses, p_enc, p_dec>>
    /\ UNCHANGED nonCodecVars

RleDecode ==
    /\ c_op = "rle_encode"
    /\ c_dec' = rle_decode(c_enc)
    /\ c_op' = "rle_decode"
    /\ UNCHANGED <<c_in, c_enc, p_in, p_max_output, p_max_pulses, p_enc, p_dec>>
    /\ UNCHANGED nonCodecVars

CompressPulses ==
    /\ c_op = "none" /\ p_in # <<>>
    /\ p_enc' = compress_pulse_sequence(p_in, p_max_output)
    /\ c_op' = "compress_pulse_sequence"
    /\ UNCHANGED <<c_in, c_enc, c_dec, p_in, p_max_output, p_max_pulses, p_dec>>
    /\ UNCHANGED nonCodecVars

DecompressPulses ==
    /\ c_op = "compress_pulse_sequence"
    /\ \E uninit \in UninitWidths :
           p_dec' = decompress_pulse_sequence(p_enc, p_max_pulses, uninit)
    /\ c_op' = "decompress_pulse_sequence"
    /\ UNCHANGED <<c_in, c_enc, c_dec, p_in, p_max_output, p_max_pulses, p_enc>>
    /\ UNCHANGED nonCodecVars

NextCodec ==
    \/ DeltaEncode \/ DeltaDecode
    \/ RleEncode \/ RleDecode
    \/ CompressPulses \/ DecompressPulses


(***************************************************************************)
(* Codec properties                                                        *)
(***************************************************************************)
\* C1: for every byte sequence s, delta_decode(delta_encode(s)) is exactly s
\* (same length, same bytes).
C1_DeltaRoundTrip == c_op = "delta_decode" => c_dec = c_in

PulseBuffersSuffice == p_max_output = 64 /\ p_max_pulses = MaxPulses

\* C3: for every pulse sequence p with at least one pulse,
\* decompress_pulse_sequence(compress_pulse_sequence(p)) has the same number
\* of pulses, each with the width and level of the original.
C3_PulseRoundTrip ==
    (c_op = "decompress_pulse_sequence" /\ PulseBuffersSuffice) =>
        /\ Len(p_dec) = Len(p_in)
        /\ \A i \in 1..Len(p_in) : /\ p_dec[i].width_us = p_in[i].width_us
                                   /\ p_dec[i].level = p_in[i].level

\* C4: compress_pulse_sequence stores at most max_output bytes and
\* decompress_pulse_sequence stores at most max_pulses pulses.
C4_WithinCallerBuffer ==
    /\ c_op \in {"compress_pulse_sequence", "decompress_pulse_sequence"} =>
           Len(p_enc) <= p_max_output
    /\ c_op = "decompress_pulse_sequence" => Len(p_dec) <= p_max_pulses

\* C21 (as stated): delta_encode of the 100 bytes 0, 1, ..., 99 returns fewer
\* than 100 bytes, and delta_decode of that output returns the 100 bytes.
C21_RampShrinks ==
    c_in = test_data =>
        /\ c_op \in {"delta_encode", "delta_decode"} => Len(c_enc) < 100
        /\ c_op = "delta_decode" => c_dec = c_in

\* The input with one more copy of its last byte, and what rle_encode makes
\* of it.
WithLastRepeated(s) == Append(s, s[Len(s)])
GrowthOnRepeat == Len(rle_encode(WithLastRepeated(c_in))) - Len(c_enc)

\* C20 (as stated): for every non-empty byte sequence s, appending one more
\* copy of its last byte makes the output of rle_encode at most 1 byte longer.
C20_RepeatGrowsByOne ==
    (c_op = "rle_encode" /\ c_in # <<>>) => GrowthOnRepeat <= 1

\* C20 (amended): for every non-empty byte sequence s whose rle_encode output
\* is shorter than COMPRESSION_MAX_BLOCK_SIZE - 2 bytes, appending one more
\* copy of its last byte makes the output at most 1 byte longer when that
\* byte is not 0x00, and at most 3 bytes longer when it is 0x00.
C20_RepeatGrowsByLiteral ==
    (/\ c_op = "rle_encode" /\ c_in # <<>>
     /\ Len(c_enc) < COMPRESSION_MAX_BLOCK_SIZE - 2) =>
        GrowthOnRepeat <= (IF c_in[Len(c_in)] = 0 THEN 3 ELSE 1)

C20_Witness ==
    /\ c_op = "rle_encode" /\ c_in # <<>>
    /\ Len(c_enc) < COMPRESSION_MAX_BLOCK_SIZE - 2
    /\ c_in[Len(c_in)] = 0
    /\ Len(c_in) >= 2 /\ c_in[Len(c_in) - 1] # 0
    /\ GrowthOnRepeat = 3

(***************************************************************************)
(* RF fingerprinting engine (analysis/fingerprinting.c)                    *)
(***************************************************************************)

FINGERPRINT_SAMPLE_COUNT == 1000
MAX_SLOPE_SAMPLES == 256
FINGERPRINT_CONFIDENCE_LOW == 50
MAX_DEVICE_DB_ENTRIES == 128

\* FingerprintState_t
FINGERPRINT_STATE_IDLE == "IDLE"
FINGERPRINT_STATE_SAMPLING == "SAMPLING"
FINGERPRINT_STATE_ANALYZING == "ANALYZING"
FINGERPRINT_STATE_MATCHING == "MATCHING"
FINGERPRINT_STATE_LEARNING == "LEARNING"

\* RFFingerprint_t.  The structure is 32 bytes: drift_mean at offset 0,
\* drift_variance at 4, rise_time_avg at 8, fall_time_avg at 10,
\* clock_stability_ppm at 12, rssi_signature at 13..28, one byte of padding
\* at 29 (field pad) and unique_hash at 30.
ZeroSignature == [i \in 1..16 |-> 0]

ZeroFingerprint ==
    [drift_mean |-> 0, drift_variance |-> 0, rise_time_avg |-> 0,
     fall_time_avg |-> 0, clock_stability_ppm |-> 0,
     rssi_signature |-> ZeroSignature, pad |-> 0, unique_hash |-> 0]

\* The first sizeof(RFFingerprint_t) - 2 bytes of a record, as the hash
\* reads them through a byte pointer (little-endian target).
FingerprintBytes(f) ==
    << f.drift_mean % 256, (f.drift_mean \div 256) % 256,
       (f.drift_mean \div 65536) % 256, (f.drift_mean \div 16777216) % 256,
       f.drift_variance % 256, (f.drift_variance \div 256) % 256,
       (f.drift_variance \div 65536) % 256, (f.drift_variance \div 16777216) % 256,
       f.rise_time_avg % 256, f.rise_time_avg \div 256,
       f.fall_time_avg % 256, f.fall_time_avg \div 256,
       f.clock_stability_ppm >> \o f.rssi_signature \o << f.pad >>

\* Bitwise exclusive-or of two w-bit values.
RECURSIVE Xor(_, _, _)
Xor(a, b, w) ==
    IF w = 0 THEN 0
    ELSE ((a + b) % 2) + 2 * Xor(a \div 2, b \div 2, w - 1)

\* One pass of the inner loop of fingerprinting_calculate_hash.
CrcShift(crc) ==
    IF crc >= 32768 THEN Xor((crc * 2) % 65536, 4129, 16)
    ELSE (crc * 2) % 65536

\* One pass of the outer loop: st = [crc, i].
CrcByteBody(data, st) ==
    [crc |-> Iterate(CrcShift, Xor(st.crc, data[st.i + 1] * 256, 16), 8),
     i |-> st.i + 1]

Crc16Ccitt(data) ==
    LET Body(st) == CrcByteBody(data, st)
    IN Iterate(Body, [crc |-> 65535, i |-> 0], Len(data)).crc

fingerprinting_calculate_hash(fingerprint) == Crc16Ccitt(FingerprintBytes(fingerprint))

\* The 16-pass integer square root of fingerprinting_calc_statistics.  The
\* product temp * temp is below 2^32 for every temp the loop forms, and var
\* is below 2^31 in this model, so var >= temp * temp can only hold for
\* temp <= 46340.
IsqrtBody(var, st) ==
    LET temp == st.std_dev + st.add
    IN [std_dev |-> IF temp <= 46340 /\ var >= temp * temp THEN temp ELSE st.std_dev,
        add |-> st.add \div 2]

Isqrt(var) ==
    LET Body(st) == IsqrtBody(var, st)
    IN Iterate(Body, [std_dev |-> 0, add |-> 32768], 16).std_dev

StatSumBody(data, st) ==
    [sum |-> st.sum + data[st.i + 1],
     min |-> Min(st.min, data[st.i + 1]),
     max |-> Max(st.max, data[st.i + 1]),
     i |-> st.i + 1]

StatVarBody(data, mean, st) ==
    [variance_sum |-> st.variance_sum + (data[st.i + 1] - mean) * (data[st.i + 1] - mean),
     i |-> st.i + 1]

fingerprinting_calc_statistics(data, count) ==
    IF count = 0
    THEN [mean |-> 0, variance |-> 0, std_dev |-> 0, min |-> 0, max |-> 0, median |-> 0]
    ELSE LET SumBody(st) == StatSumBody(data, st)
             s == Iterate(SumBody, [sum |-> 0, min |-> data[1], max |-> data[1], i |-> 0], count)
             mean == s.sum \div count
             VarBody(st) == StatVarBody(data, mean, st)
             v == Iterate(VarBody, [variance_sum |-> 0, i |-> 0], count)
             variance == v.variance_sum \div count
         IN [mean |-> mean, variance |-> variance, std_dev |-> Isqrt(variance),
             min |-> s.min, max |-> s.max, median |-> mean]

\* FingerprintCaptureState_t after memset(&capture_state, 0, ...).  The
\* arrays inter_frame_intervals, symbol_timings and rssi_samples are kept as
\* sequences of their first interval_count, symbol_count and
\* rssi_sample_count elements, so each count is the length of its sequence.
\* capture_start_time is written from the tick counter and never read.
ZeroCaptureState ==
    [inter_frame_intervals |-> <<>>, last_frame_timestamp |-> 0,
     rssi_samples |-> <<>>, rssi_sample_start |-> 0,
     symbol_timings |-> <<>>, rssi_envelope |-> ZeroSignature,
     current_fingerprint |-> ZeroFingerprint,
     state |-> FINGERPRINT_STATE_IDLE, frames_captured |-> 0]

fingerprinting_analyze_timing_drift(cs) ==
    IF Len(cs.inter_frame_intervals) < 10 THEN cs
    ELSE LET stats == fingerprinting_calc_statistics(cs.inter_frame_intervals,
                                                     Len(cs.inter_frame_intervals))
         IN [cs EXCEPT !.current_fingerprint.drift_mean = stats.mean,
                       !.current_fingerprint.drift_variance = stats.variance]

\* One pass of the loop of fingerprinting_analyze_rise_fall_slopes, i >= 1.
SlopeBody(samples, st) ==
    LET diff == samples[st.i + 1] - samples[st.i]
    IN [total_rise |-> IF diff > 0 THEN st.total_rise + diff ELSE st.total_rise,
        rise_count |-> IF diff > 0 THEN st.rise_count + 1 ELSE st.rise_count,
        total_fall |-> IF diff < 0 THEN st.total_fall - diff ELSE st.total_fall,
        fall_count |-> IF diff < 0 THEN st.fall_count + 1 ELSE st.fall_count,
        i |-> st.i + 1]

fingerprinting_analyze_rise_fall_slopes(cs) ==
    IF Len(cs.rssi_samples) < 10 THEN cs
    ELSE LET Body(st) == SlopeBody(cs.rssi_samples, st)
             r == Iterate(Body, [total_rise |-> 0, rise_count |-> 0, total_fall |-> 0,
                                 fall_count |-> 0, i |-> 1], Len(cs.rssi_samples) - 1)
             f == cs.current_fingerprint
         IN [cs EXCEPT !.current_fingerprint.rise_time_avg =
                           IF r.rise_count > 0 THEN ToU16(r.total_rise \div r.rise_count)
                           ELSE f.rise_time_avg,
                       !.current_fingerprint.fall_time_avg =
                           IF r.fall_count > 0 THEN ToU16(r.total_fall \div r.fall_count)
                           ELSE f.fall_time_avg]

\* std_dev * 1000000 is a 32-bit product in the source; the captures of this
\* model keep std_dev below 2148, where it does not wrap.
fingerprinting_analyze_clock_stability(cs) ==
    IF Len(cs.symbol_timings) < 10 THEN cs
    ELSE LET stats == fingerprinting_calc_statistics(cs.symbol_timings,
                                                     Len(cs.symbol_timings))
             ppm == (stats.std_dev * 1000000) \div stats.mean
         IN IF stats.mean > 0
            THEN [cs EXCEPT !.current_fingerprint.clock_stability_ppm =
                                IF ppm > 255 THEN 255 ELSE ppm]
            ELSE cs

fingerprinting_analyze_rssi_envelope(cs) ==
    [cs EXCEPT !.current_fingerprint.rssi_signature = cs.rssi_envelope]

RunAllAnalyses(cs) ==
    fingerprinting_analyze_rssi_envelope(
        fingerprinting_analyze_clock_stability(
            fingerprinting_analyze_rise_fall_slopes(
                fingerprinting_analyze_timing_drift(cs))))

\* memcpy(dst, src, sizeof(RFFingerprint_t)): every byte of dst is replaced.
MemcpyFingerprint(dst, src) == src

\* fingerprinting_generate_fingerprint(fingerprint).  own = TRUE is the call
\* from fingerprinting_process_frame, where fingerprint points at
\* capture_state.current_fingerprint: the hash is stored into that record and
\* the memcpy copies the record onto itself.  Otherwise fingerprint points at
\* the caller's record out: the hash of the caller's bytes is stored into it,
\* and the memcpy then replaces the whole record, hash included, by
\* capture_state.current_fingerprint.  Result: [cs, out].
fingerprinting_generate_fingerprint(cs, own, out) ==
    LET analysed == RunAllAnalyses(cs)
        hashedOwn == [analysed EXCEPT !.current_fingerprint.unique_hash =
                         fingerprinting_calculate_hash(analysed.current_fingerprint)]
        hashedOut == [out EXCEPT !.unique_hash = fingerprinting_calculate_hash(out)]
    IN IF own
       THEN [cs |-> [hashedOwn EXCEPT !.state = FINGERPRINT_STATE_MATCHING],
             out |-> out]
       ELSE [cs |-> [analysed EXCEPT !.state = FINGERPRINT_STATE_MATCHING],
             out |-> MemcpyFingerprint(hashedOut, analysed.current_fingerprint)]

\* frame->duration_us / frame->length.  Frame_t allows length 0, and an
\* unsigned division by zero is undefined: the Cortex-M4 UDIV instruction
\* yields 0, or raises a usage fault when divide-by-zero trapping is enabled.
SymbolTimingOutcomes(frame) ==
    IF frame.length = 0
    THEN {[trap |-> FALSE, q |-> 0], [trap |-> TRUE, q |-> 0]}
    ELSE {[trap |-> FALSE, q |-> frame.duration_us \div frame.length]}

\* Lines 74-86 of fingerprinting_process_frame: the inter-frame interval.
ProcessFrameInterval(cs, frame) ==
    LET now == frame.timestamp_us
        withInterval ==
            IF cs.last_frame_timestamp > 0
                   /\ Len(cs.inter_frame_intervals) < FINGERPRINT_SAMPLE_COUNT
            THEN [cs EXCEPT !.inter_frame_intervals =
                                Append(@, now - cs.last_frame_timestamp)]
            ELSE cs
    IN [withInterval EXCEPT !.last_frame_timestamp = now]

\* Lines 88-104 of fingerprinting_process_frame for a symbol timing q.
ProcessFrameRest(cs, frame, q) ==
    LET timed == IF Len(cs.symbol_timings) < FINGERPRINT_SAMPLE_COUNT
                 THEN [cs EXCEPT !.symbol_timings = Append(@, q)]
                 ELSE cs
        rssi_idx == cs.frames_captured % 16
        counted == [timed EXCEPT !.rssi_envelope[rssi_idx + 1] = ToU8(frame.rssi_dbm + 128),
                                 !.frames_captured = @ + 1]
    IN IF counted.frames_captured >= FINGERPRINT_SAMPLE_COUNT
       THEN [cs |-> fingerprinting_generate_fingerprint(
                        [counted EXCEPT !.state = FINGERPRINT_STATE_ANALYZING],
                        TRUE, ZeroFingerprint).cs,
             path |-> <<FINGERPRINT_STATE_ANALYZING, FINGERPRINT_STATE_MATCHING>>]
       ELSE [cs |-> counted, path |-> <<>>]

\* fingerprinting_process_frame: the set of outcomes [cs, path, fault].
fingerprinting_process_frame(cs, frame) ==
    IF cs.state # FINGERPRINT_STATE_SAMPLING
    THEN {[cs |-> cs, path |-> <<>>, fault |-> FALSE]}
    ELSE LET c1 == ProcessFrameInterval(cs, frame)
         IN { IF o.trap
              THEN [cs |-> c1, path |-> <<>>, fault |-> TRUE]
              ELSE LET r == ProcessFrameRest(c1, frame, o.q)
                   IN [cs |-> r.cs, path |-> r.path, fault |-> FALSE]
              : o \in SymbolTimingOutcomes(frame) }

fingerprinting_process_rssi_sample(cs, rssi, timestamp_us) ==
    IF cs.state # FINGERPRINT_STATE_SAMPLING THEN cs
    ELSE IF Len(cs.rssi_samples) < MAX_SLOPE_SAMPLES
    THEN [cs EXCEPT !.rssi_samples = Append(@, rssi),
                    !.rssi_sample_start =
                        IF Len(cs.rssi_samples) = 0 THEN timestamp_us ELSE @]
    ELSE cs

fingerprinting_start_capture ==
    [ZeroCaptureState EXCEPT !.state = FINGERPRINT_STATE_SAMPLING]

fingerprinting_stop_capture(cs) ==
    [cs EXCEPT !.state = FINGERPRINT_STATE_IDLE]

fingerprinting_start_learning ==
    [fingerprinting_start_capture EXCEPT !.state = FINGERPRINT_STATE_LEARNING]

\* ---- Capture harness ----------------------------------------------------

MaxRssiSamples == 11      \* RSSI samples delivered to one capture
EarlyFrames == 11         \* frames before which the control calls interleave

\* The i-th frame (from 0) of the transmitter under capture: roughly one
\* frame per millisecond with some jitter, 8 bytes, rssi_dbm holding a
\* negative dBm value in its unsigned 16-bit field.
FrameAt(i) ==
    [timestamp_us |-> 1000 * (i + 1) + (i % 3),
     duration_us |-> 800 + 8 * (i % 2),
     length |-> 8,
     rssi_dbm |-> ToU16(-60 - (i % 5))]

\* The first frame of a capture also comes empty, or stamped 0.
FrameInputs(i) ==
    IF i = 0
    THEN {FrameAt(0), [FrameAt(0) EXCEPT !.length = 0],
          [FrameAt(0) EXCEPT !.timestamp_us = 0]}
    ELSE {FrameAt(i)}

RssiAt(n) == <<40, 52, 47, 47, 60, 30>>[(n % 6) + 1]

\* What the caller's record holds before fingerprinting_generate_fingerprint.
CallerRecords ==
    {ZeroFingerprint,
     [ZeroFingerprint EXCEPT !.drift_mean = 7, !.pad = 255, !.unique_hash = 4660]}

\* fp_out is the record of the caller of the last operation; only
\* fingerprinting_generate_fingerprint has one.  Control calls interleave with the first EarlyFrames frames of a capture
\* and with every state other than Sampling.
ControlEnabled ==
    \/ capture_state.state # FINGERPRINT_STATE_SAMPLING
    \/ capture_state.frames_captured <= EarlyFrames

FpIdle ==
    /\ capture_state = ZeroCaptureState
    /\ fp_op = "none" /\ fp_path = <<>> /\ fp_out = ZeroFingerprint
    /\ fault = FALSE

StartCapture ==
    /\ ~fault /\ ControlEnabled
    /\ capture_state' = fingerprinting_start_capture
    /\ fp_op' = "start_capture"
    /\ fp_path' = <<FINGERPRINT_STATE_SAMPLING>>
    /\ fp_out' = ZeroFingerprint
    /\ UNCHANGED fault
    /\ UNCHANGED nonFpVars

StopCapture ==
    /\ ~fault /\ ControlEnabled
    /\ capture_state' = fingerprinting_stop_capture(capture_state)
    /\ fp_op' = "stop_capture"
    /\ fp_path' = <<FINGERPRINT_STATE_IDLE>>
    /\ fp_out' = ZeroFingerprint
    /\ UNCHANGED fault
    /\ UNCHANGED nonFpVars

ProcessFrame ==
    /\ ~fault
    /\ \E frame \in FrameInputs(capture_state.frames_captured) :
         \E o \in fingerprinting_process_frame(capture_state, frame) :
            /\ capture_state' = o.cs
            /\ fp_path' = o.path
            /\ fault' = o.fault
    /\ fp_op' = "process_frame"
    /\ fp_out' = ZeroFingerprint
    /\ UNCHANGED nonFpVars

ProcessRssiSample ==
    /\ ~fault /\ ControlEnabled
    /\ Len(capture_state.rssi_samples) < MaxRssiSamples
    /\ capture_state' = fingerprinting_process_rssi_sample(capture_state,
                            RssiAt(Len(capture_state.rssi_samples)),
                            10 * Len(capture_state.rssi_samples) + 5)
    /\ fp_op' = "process_rssi_sample"
    /\ fp_path' = <<>>
    /\ fp_out' = ZeroFingerprint
    /\ UNCHANGED fault
    /\ UNCHANGED nonFpVars

GenerateFingerprint ==
    /\ ~fault /\ ControlEnabled
    /\ \E out \in CallerRecords :
         LET r == fingerprinting_generate_fingerprint(capture_state, FALSE, out)
         IN /\ capture_state' = r.cs
            /\ fp_out' = r.out
    /\ fp_op' = "generate_fingerprint"
    /\ fp_path' = <<FINGERPRINT_STATE_MATCHING>>
    /\ UNCHANGED fault
    /\ UNCHANGED nonFpVars

StartLearning ==
    /\ ~fault /\ ControlEnabled
    /\ capture_state' = fingerprinting_start_learning
    /\ fp_op' = "start_learning"
    /\ fp_path' = <<FINGERPRINT_STATE_SAMPLING, FINGERPRINT_STATE_LEARNING>>
    /\ fp_out' = ZeroFingerprint
    /\ UNCHANGED fault
    /\ UNCHANGED nonFpVars

StopLearning ==
    /\ ~fault /\ ControlEnabled
    /\ IF capture_state.state = FINGERPRINT_STATE_LEARNING
       THEN /\ capture_state' = fingerprinting_stop_capture(capture_state)
            /\ fp_path' = <<FINGERPRINT_STATE_IDLE>>
       ELSE /\ UNCHANGED capture_state
            /\ fp_path' = <<>>
    /\ fp_op' = "stop_learning"
    /\ fp_out' = ZeroFingerprint
    /\ UNCHANGED fault
    /\ UNCHANGED nonFpVars

NextFpCapture ==
    \/ StartCapture
    \/ StopCapture
    \/ ProcessFrame
    \/ ProcessRssiSample
    \/ GenerateFingerprint
    \/ StartLearning
    \/ StopLearning

(***************************************************************************)
(* Claims about the capture state machine and fingerprint generation       *)
(***************************************************************************)

FpEdges ==
    {<<FINGERPRINT_STATE_IDLE, FINGERPRINT_STATE_SAMPLING>>,
     <<FINGERPRINT_STATE_SAMPLING, FINGERPRINT_STATE_ANALYZING>>,
     <<FINGERPRINT_STATE_ANALYZING, FINGERPRINT_STATE_MATCHING>>,
     <<FINGERPRINT_STATE_MATCHING, FINGERPRINT_STATE_LEARNING>>,
     <<FINGERPRINT_STATE_MATCHING, FINGERPRINT_STATE_IDLE>>}

StopOps == {"stop_capture", "stop_learning"}

CaptureOps ==
    {"start_capture", "stop_capture", "start_learning", "stop_learning",
     "process_frame", "process_rssi_sample"}

\* A change of capture_state.state from from to to made by operation op that
\* ends with frames frames captured: an edge of the chain (out of Sampling
\* only with 1000 frames), or a stop taking the engine to Idle.
FpChangeAllowed(from, to, op, frames) ==
    \/ from = to
    \/ to = FINGERPRINT_STATE_IDLE /\ op \in StopOps
    \/ /\ <<from, to>> \in FpEdges
       /\ from = FINGERPRINT_STATE_SAMPLING => frames >= FINGERPRINT_SAMPLE_COUNT

\* C8: under any sequence of start/stop capture, start/stop learning and
\* frame/RSSI ingest, every value an operation stores to the engine state
\* follows the previous one along Idle -> Sampling -> Analyzing -> Matching
\* -> (Learning or Idle); the engine leaves Sampling exactly when
\* frames_captured reaches 1000 or a stop is signalled.
C8_StateMachine ==
    [][ fp_op' \in CaptureOps =>
          /\ \A i \in 1..Len(fp_path') :
               FpChangeAllowed(IF i = 1 THEN capture_state.state ELSE fp_path'[i - 1],
                               fp_path'[i], fp_op', capture_state'.frames_captured)
          /\ (capture_state'.frames_captured >= FINGERPRINT_SAMPLE_COUNT
                 \/ (fp_op' = "stop_capture"))
                => capture_state'.state # FINGERPRINT_STATE_SAMPLING
      ]_vars

\* C9: every record written by fingerprint generation, the engine's own
\* record (at the 1000th frame) or the caller's record, has unique_hash equal
\* to the CRC-16-CCITT of its other bytes.
C9_HashOfOtherFields ==
    /\ fp_op = "generate_fingerprint"
          => fp_out.unique_hash = Crc16Ccitt(FingerprintBytes(fp_out))
    /\ (fp_op = "process_frame" /\ fp_path # <<>>)
          => capture_state.current_fingerprint.unique_hash
                 = Crc16Ccitt(FingerprintBytes(capture_state.current_fingerprint))

\* C26: while the engine is in learning mode and holds fewer than 1000
\* frames, every frame given to fingerprinting_process_frame is accumulated:
\* frames_captured and the symbol timings grow by one.
C26_LearningAccumulates ==
    [][ (/\ fp_op' = "process_frame"
         /\ capture_state.state = FINGERPRINT_STATE_LEARNING
         /\ capture_state.frames_captured < FINGERPRINT_SAMPLE_COUNT) =>
            /\ capture_state'.frames_captured = capture_state.frames_captured + 1
            /\ Len(capture_state'.symbol_timings) = Len(capture_state.symbol_timings) + 1
      ]_vars

\* C29: fingerprinting_process_frame returns from every frame it is given
\* while the engine is Sampling, a frame of length 0 included: the division
\* of duration_us by the length, the only operation of it that can stop the
\* processor, never divides by zero.
C29_EmptyFrameCompletes == fp_op = "process_frame" => ~fault

(***************************************************************************)
(* Device database and matching (analysis/fingerprinting.c)                *)
(***************************************************************************)

\* DeviceDatabase_t after memset: a sequence of the first count entries, so
\* device id i is element i + 1.  TemporalDeviceRecord_t likewise, with
\* num_temporal_records the length.  The last_seen and first_seen fields hold
\* readings of the tick counter, which no operation here reads back; they are
\* left out.
ZeroHistory == [i \in 1..10 |-> ZeroFingerprint]

RECURSIVE SumAbsDiff(_, _, _)
SumAbsDiff(a, b, n) ==
    IF n = 0 THEN 0 ELSE Abs(a[n] - b[n]) + SumAbsDiff(a, b, n - 1)

fingerprinting_weighted_distance(a, b) ==
    LET drift_dist == Abs(a.drift_mean - b.drift_mean)
                        + Abs(a.drift_variance - b.drift_variance) \div 10
        slope_dist == Abs(a.rise_time_avg - b.rise_time_avg)
                        + Abs(a.fall_time_avg - b.fall_time_avg)
        clock_dist == Abs(a.clock_stability_ppm - b.clock_stability_ppm)
        rssi_dist == SumAbsDiff(a.rssi_signature, b.rssi_signature, 16)
    IN (drift_dist * 30) \div 100 + (slope_dist * 25) \div 100
         + (clock_dist * 20) \div 100 + (rssi_dist * 25) \div 100

fingerprinting_calculate_similarity(a, b) ==
    LET distance == fingerprinting_weighted_distance(a, b)
        max_distance == 10000
    IN IF distance >= max_distance THEN 0
       ELSE ToU8(100 - (distance * 100) \div max_distance)

\* fingerprinting_update_temporal_record on the record table tr.
TemporalIndex(tr, device_id) ==
    IF \E i \in 1..Len(tr) : tr[i].device_id = device_id
    THEN CHOOSE i \in 1..Len(tr) :
             /\ tr[i].device_id = device_id
             /\ \A j \in 1..(i - 1) : tr[j].device_id # device_id
    ELSE 0

fingerprinting_update_temporal_record(tr, device_id, fingerprint) ==
    LET found == TemporalIndex(tr, device_id)
        created == found = 0 /\ Len(tr) < MAX_DEVICE_DB_ENTRIES
        tr1 == IF created
               THEN Append(tr, [device_id |-> device_id, baseline |-> fingerprint,
                                history |-> ZeroHistory, history_count |-> 0,
                                match_count |-> 0, drift_detected |-> FALSE,
                                drift_magnitude |-> 0])
               ELSE tr
        r == IF created THEN Len(tr1) ELSE found
    IN IF r = 0 THEN tr1
       ELSE [tr1 EXCEPT ![r].history[(tr1[r].history_count % 10) + 1] = fingerprint,
                        ![r].history_count = ToU8(@ + 1),
                        ![r].match_count = @ + 1]

\* A variant of the scan that records the confidence of a better entry but
\* not its index.
MatchScanBodyKeepIndex(fingerprint, db, st) ==
    LET confidence == fingerprinting_calculate_similarity(fingerprint,
                                                          db[st.i + 1].fingerprint)
    IN IF confidence > st.best_confidence
       THEN [best_confidence |-> confidence, best_match |-> st.best_match, i |-> st.i + 1]
       ELSE [st EXCEPT !.i = @ + 1]

\* One pass of the scan of fingerprinting_match_device.
MatchScanBody(fingerprint, db, st) ==
    LET confidence == fingerprinting_calculate_similarity(fingerprint,
                                                          db[st.i + 1].fingerprint)
    IN IF confidence > st.best_confidence
       THEN [best_confidence |-> confidence, best_match |-> st.i, i |-> st.i + 1]
       ELSE [st EXCEPT !.i = @ + 1]

\* fingerprinting_match_device with both out-pointers set: id_in and fp_in
\* are what *matched_device_id and *matched_fingerprint hold on entry.
\* Result: the return value, both out-values and the temporal records.
fingerprinting_match_device(db, tr, fingerprint, id_in, fp_in) ==
    LET Body(st) == MatchScanBody(fingerprint, db, st)
        s == Iterate(Body, [best_confidence |-> 0, best_match |-> 0, i |-> 0], Len(db))
    IN IF s.best_confidence >= FINGERPRINT_CONFIDENCE_LOW
       THEN [confidence |-> s.best_confidence,
             matched_device_id |-> s.best_match,
             matched_fingerprint |-> db[s.best_match + 1].fingerprint,
             temporal |-> fingerprinting_update_temporal_record(tr, s.best_match,
                                                                 fingerprint)]
       ELSE [confidence |-> s.best_confidence,
             matched_device_id |-> id_in,
             matched_fingerprint |-> fp_in,
             temporal |-> tr]

\* A variant that stores the new entry in front of the others.
fingerprinting_add_to_database_front(db, fingerprint, device_name) ==
    IF Len(db) >= MAX_DEVICE_DB_ENTRIES THEN db
    ELSE <<[fingerprint |-> fingerprint, device_name |-> device_name,
            match_count |-> 1]>> \o db

\* fingerprinting_add_to_database: the table after the call (unchanged when
\* it is full and the call returns false).
fingerprinting_add_to_database(db, fingerprint, device_name) ==
    IF Len(db) >= MAX_DEVICE_DB_ENTRIES THEN db
    ELSE Append(db, [fingerprint |-> fingerprint, device_name |-> device_name,
                     match_count |-> 1])

\* fingerprinting_remove_from_database: later entries shift down by one.
fingerprinting_remove_from_database(db, device_id) ==
    IF device_id >= Len(db) THEN db
    ELSE [i \in 1..(Len(db) - 1) |-> IF i <= device_id THEN db[i] ELSE db[i + 1]]

\* ---- Matching harness -----------------------------------------------------

MaxDevices == 2           \* entries added to the device table
MaxMatches == 2           \* matches recorded in the temporal records

\* Fingerprints of the table and of the queries: their similarities cover
\* 100, values either side of FINGERPRINT_CONFIDENCE_LOW, and 0.
Fp(drift_mean, clock, rssi0) ==
    [ZeroFingerprint EXCEPT !.drift_mean = drift_mean,
                            !.drift_variance = 40,
                            !.rise_time_avg = 9, !.fall_time_avg = 7,
                            !.clock_stability_ppm = clock,
                            !.rssi_signature[1] = rssi0]

KnownFingerprints == {Fp(1200, 3, 68), Fp(17665, 23, 84), Fp(41000, 3, 68)}

DbFingerprints == {Fp(1000, 3, 68), Fp(11000, 3, 68), Fp(26000, 3, 68)}

DeviceNames == {"gate"}

\* *matched_device_id before the call: a value that is no id of the table.
MatchIdInputs == {7}

RECURSIVE TotalMatches(_, _)
TotalMatches(tr, n) ==
    IF n = 0 THEN 0 ELSE tr[n].match_count + TotalMatches(tr, n - 1)

DbIdle ==
    /\ device_database = <<>> /\ temporal_records = <<>>
    /\ db_op = "none" /\ m_query = ZeroFingerprint
    /\ m_id_in = 0 /\ m_id_out = 0 /\ m_confidence = 0
    /\ m_matched = ZeroFingerprint

AddToDatabase ==
    /\ Len(device_database) < MaxDevices
    /\ \E f \in DbFingerprints, name \in DeviceNames :
         device_database' = fingerprinting_add_to_database(device_database, f, name)
    /\ db_op' = "add_to_database"
    /\ UNCHANGED <<temporal_records, m_query, m_id_in, m_id_out, m_confidence, m_matched>>
    /\ UNCHANGED nonDbVars

RemoveFromDatabase ==
    /\ \E device_id \in 0..MaxDevices :
         device_database' = fingerprinting_remove_from_database(device_database, device_id)
    /\ db_op' = "remove_from_database"
    /\ UNCHANGED <<temporal_records, m_query, m_id_in, m_id_out, m_confidence, m_matched>>
    /\ UNCHANGED nonDbVars

MatchDevice ==
    /\ TotalMatches(temporal_records, Len(temporal_records)) < MaxMatches
    /\ \E f \in KnownFingerprints, id_in \in MatchIdInputs :
         LET r == fingerprinting_match_device(device_database, temporal_records,
                                              f, id_in, ZeroFingerprint)
         IN /\ m_query' = f
            /\ m_id_in' = id_in
            /\ m_id_out' = r.matched_device_id
            /\ m_matched' = r.matched_fingerprint
            /\ m_confidence' = r.confidence
            /\ temporal_records' = r.temporal
    /\ db_op' = "match_device"
    /\ UNCHANGED device_database
    /\ UNCHANGED nonDbVars

NextFpMatch ==
    \/ AddToDatabase
    \/ RemoveFromDatabase
    \/ MatchDevice

(***************************************************************************)
(* Claims about matching                                                   *)
(***************************************************************************)

\* The similarity of the query to table entry id.
EntryConfidence(id) ==
    fingerprinting_calculate_similarity(m_query, device_database[id + 1].fingerprint)

\* The highest similarity among the stored entries, 0 for an empty table.
HighestConfidence ==
    LET S == {EntryConfidence(id) : id \in 0..(Len(device_database) - 1)} \cup {0}
    IN CHOOSE m \in S : \A x \in S : x <= m

\* C10: for every table content and query, match returns the highest
\* similarity among all stored entries together with the id of an entry that
\* attains it.
C10_MatchBestAndId ==
    db_op = "match_device" =>
        /\ m_confidence = HighestConfidence
        /\ device_database # <<>> =>
              /\ m_id_out < Len(device_database)
              /\ EntryConfidence(m_id_out) = m_confidence

\* C10, as the code has it: match returns the highest similarity among all
\* stored entries (0 for an empty table); when that is at least
\* FINGERPRINT_CONFIDENCE_LOW it stores the id and the fingerprint of the
\* first entry attaining it, otherwise it leaves the caller's id and record
\* as they were.
C10_MatchBestAboveLow ==
    db_op = "match_device" =>
        /\ m_confidence = HighestConfidence
        /\ IF m_confidence >= FINGERPRINT_CONFIDENCE_LOW
           THEN /\ m_id_out < Len(device_database)
                /\ EntryConfidence(m_id_out) = m_confidence
                /\ \A id \in 0..(m_id_out - 1) : EntryConfidence(id) < m_confidence
                /\ m_matched = device_database[m_id_out + 1].fingerprint
           ELSE /\ m_id_out = m_id_in
                /\ m_matched = ZeroFingerprint

\* A match found its best entry, above the threshold, behind a weaker one.
C10_Witness ==
    /\ db_op = "match_device"
    /\ Len(device_database) >= 2
    /\ m_confidence >= FINGERPRINT_CONFIDENCE_LOW
    /\ m_id_out = 1
    /\ EntryConfidence(0) < m_confidence

(***************************************************************************)
(* Device ids: the table under add, remove, match, counterfeit check and   *)
(* the learning capture                                                    *)
(***************************************************************************)

\* The first entry named claimed_device, 65535 (0xFFFF) when there is none.
ClaimedId(db, claimed_device) ==
    IF \E i \in 1..Len(db) : db[i].device_name = claimed_device
    THEN (CHOOSE i \in 1..Len(db) :
              /\ db[i].device_name = claimed_device
              /\ \A j \in 1..(i - 1) : db[j].device_name # claimed_device) - 1
    ELSE 65535

\* One pass of the second loop of fingerprinting_detect_counterfeit:
\* st = [best_other_match, i].
BestOtherBody(db, fingerprint, claimed_id, st) ==
    LET Better(other_confidence) ==
            [best_other_match |-> IF other_confidence > st.best_other_match
                                  THEN other_confidence ELSE st.best_other_match,
             i |-> st.i + 1]
    IN IF st.i = claimed_id THEN [best_other_match |-> st.best_other_match, i |-> st.i + 1]
       ELSE With(fingerprinting_calculate_similarity(fingerprint,
                                                     db[st.i + 1].fingerprint),
                 Better)

\* fingerprinting_detect_counterfeit: the value stored to *confidence.
fingerprinting_detect_counterfeit(db, fingerprint, claimed_device) ==
    LET claimed_id == ClaimedId(db, claimed_device)
        Body(st) == BestOtherBody(db, fingerprint, claimed_id, st)
        Decide(match_confidence) ==
            IF Iterate(Body, [best_other_match |-> 0, i |-> 0],
                       Len(db)).best_other_match > match_confidence
            THEN 0
            ELSE match_confidence
    IN IF claimed_id = 65535 THEN 0
       ELSE With(fingerprinting_calculate_similarity(fingerprint,
                                                     db[claimed_id + 1].fingerprint),
                 Decide)

\* ---- Device harness ---------------------------------------------------------

MaxDeviceMatches == 1     \* matches recorded while the ids are watched

NamedDevices ==
    {[fingerprint |-> Fp(1000, 3, 68), device_name |-> "gate"],
     [fingerprint |-> Fp(11000, 3, 68), device_name |-> "door"],
     [fingerprint |-> Fp(1000, 3, 68), device_name |-> "door"]}

ClaimedNames == {"gate", "door", "shed"}

AddNamedDevice ==
    /\ Len(device_database) < MaxDevices
    /\ \E dev \in NamedDevices :
         device_database' = fingerprinting_add_to_database(device_database,
                                                           dev.fingerprint, dev.device_name)
    /\ db_op' = "add_to_database"
    /\ m_query' = ZeroFingerprint /\ m_id_in' = 0 /\ m_id_out' = 0
    /\ m_confidence' = 0 /\ m_matched' = ZeroFingerprint
    /\ UNCHANGED temporal_records
    /\ UNCHANGED nonDbVars

RemoveDevice ==
    /\ \E device_id \in 0..MaxDevices :
         device_database' = fingerprinting_remove_from_database(device_database, device_id)
    /\ db_op' = "remove_from_database"
    /\ m_query' = ZeroFingerprint /\ m_id_in' = 0 /\ m_id_out' = 0
    /\ m_confidence' = 0 /\ m_matched' = ZeroFingerprint
    /\ UNCHANGED temporal_records
    /\ UNCHANGED nonDbVars

MatchStoredDevice ==
    /\ TotalMatches(temporal_records, Len(temporal_records)) < MaxDeviceMatches
    /\ \E f \in {Fp(1200, 3, 68), Fp(41000, 3, 68)} :
         \E r \in {fingerprinting_match_device(device_database, temporal_records,
                                               f, 7, ZeroFingerprint)} :
            /\ m_query' = f
            /\ m_id_in' = 7
            /\ m_id_out' = r.matched_device_id
            /\ m_matched' = r.matched_fingerprint
            /\ m_confidence' = r.confidence
            /\ temporal_records' = r.temporal
    /\ db_op' = "match_device"
    /\ UNCHANGED device_database
    /\ UNCHANGED nonDbVars

DetectCounterfeit ==
    /\ \E f \in {Fp(1200, 3, 68), Fp(17665, 23, 84)}, claimed \in ClaimedNames :
         /\ m_query' = f
         /\ m_confidence' = fingerprinting_detect_counterfeit(device_database, f, claimed)
    /\ db_op' = "detect_counterfeit"
    /\ m_id_in' = 0 /\ m_id_out' = 0 /\ m_matched' = ZeroFingerprint
    /\ UNCHANGED <<device_database, temporal_records>>
    /\ UNCHANGED nonDbVars

NextFpDevices ==
    \/ AddNamedDevice
    \/ RemoveDevice
    \/ MatchStoredDevice
    \/ DetectCounterfeit
    \/ StartLearning
    \/ StopLearning

\* C11: ids are given in insertion order (a device added to a table of n
\* entries gets id n), and no operation other than remove changes the entry
\* found under an id already given.
C11_StableIds ==
    [][db_op' # "remove_from_database" =>
          /\ Len(device_database') >= Len(device_database)
          /\ SubSeq(device_database', 1, Len(device_database)) = device_database
          /\ device_database' # device_database =>
                /\ db_op' = "add_to_database"
                /\ Len(device_database') = Len(device_database) + 1]_vars

\* Two different devices are in the table, a counterfeit check has found the
\* claimed one, and a learning capture is under way.
C11_Witness ==
    /\ db_op = "detect_counterfeit"
    /\ Len(device_database) = 2
    /\ device_database[1] # device_database[2]
    /\ m_confidence > 0
    /\ capture_state.state = FINGERPRINT_STATE_LEARNING

(***************************************************************************)
(* Fixed-point arithmetic (core/math/fixed_point.c) and k-means            *)
(* clustering (analysis/clustering.c)                                      *)
(***************************************************************************)

\* fixed_t is a 32-bit Q15.16 value.  The 64-bit intermediates of fixed_mul
\* and fixed_div are computed in the checker's integers while they stay
\* below 2^31, and in 16-bit limbs otherwise.
FIXED_ONE == 65536
FIXED_MAX == 2147483647
FIXED_MIN == -2147483647 - 1
KMEANS_MAX_K == 5
KMEANS_MAX_ITERATIONS == 100
MAX_PULSE_COUNT == 4096

\* C integer division, which truncates toward zero.
TruncDiv(a, b) ==
    IF (a >= 0) = (b > 0) THEN Abs(a) \div Abs(b) ELSE -(Abs(a) \div Abs(b))

fixed_abs(x) == IF x < 0 THEN -x ELSE x

\* The int32 with high half hi (taken modulo 2^16) and low half lo in 0..65535:
\* the cast of a 64-bit value to fixed_t.
ToI32(hi, lo) ==
    LET h == hi % 65536
    IN (IF h >= 32768 THEN h - 65536 ELSE h) * 65536 + lo

\* The cast to fixed_t of -(hi * 2^16 + lo).
NegI32(hi, lo) ==
    IF lo = 0 THEN ToI32(-hi, 0) ELSE ToI32(-hi - 1, 65536 - lo)

\* fixed_mul where the 64-bit product does not fit the model's integers:
\* the product of the magnitudes plus one half, as 16-bit limbs.
FixedMulWide(a, b) ==
    LET ah == IF a = FIXED_MIN THEN 32768 ELSE fixed_abs(a) \div 65536
        al == IF a = FIXED_MIN THEN 0 ELSE fixed_abs(a) % 65536
        bh == IF b = FIXED_MIN THEN 32768 ELSE fixed_abs(b) \div 65536
        bl == IF b = FIXED_MIN THEN 0 ELSE fixed_abs(b) % 65536
        X == (al \div 256) * bl
        Y == (al % 256) * bl + 32768
        low == (X % 256) * 256 + Y
        L == low % 65536
        T1 == ah * bl
        T2 == al * bh
        T3 == (X \div 256) + (low \div 65536)
        losum == (T1 % 65536) + (T2 % 65536) + (T3 % 65536)
        hisum == ah * bh + (T1 \div 65536) + (T2 \div 65536) + (T3 \div 65536)
                    + (losum \div 65536)
        lo16 == losum % 65536
    IN IF (a >= 0) = (b >= 0) \/ a = 0 \/ b = 0
       THEN ToI32(hisum, lo16)
       ELSE IF L = 0 THEN NegI32(hisum, lo16)
       ELSE IF lo16 = 65535 THEN NegI32(hisum + 1, 0)
       ELSE NegI32(hisum, lo16 + 1)

fixed_mul(a, b) ==
    IF a # FIXED_MIN /\ b # FIXED_MIN /\ fixed_abs(a) <= 46340 /\ fixed_abs(b) <= 46340
    THEN LET temp == a * b
             rounded == IF temp >= 0 THEN temp + 32768 ELSE temp - 32768
         IN rounded \div 65536
    ELSE FixedMulWide(a, b)

\* Sixteen steps of long division of r * 2^16 by B, for 0 <= r < B: the
\* quotient and the remainder.
RECURSIVE LongDivide(_, _, _, _)
LongDivide(r, B, q, steps) ==
    IF steps = 0 THEN [q |-> q, r |-> r]
    ELSE IF r >= B - r THEN LongDivide(r - (B - r), B, 2 * q + 1, steps - 1)
    ELSE LongDivide(2 * r, B, 2 * q, steps - 1)

\* fixed_div where a << 16 does not fit the model's integers.
FixedDivWide(a, b) ==
    LET A == fixed_abs(a)
        B == fixed_abs(b)
        q1 == A \div B
        d == LongDivide(A % B, B, 0, 16)
        \* b >> 1 is added when b > 0 and its magnitude subtracted when b < 0
        Q == IF b > 0 THEN (IF d.r >= B - (B \div 2) THEN d.q + 1 ELSE d.q)
             ELSE (IF d.r >= B - (B \div 2) THEN d.q ELSE d.q - 1)
        hi == IF Q = 65536 THEN q1 + 1 ELSE IF Q < 0 THEN q1 - 1 ELSE q1
        lo == IF Q = 65536 THEN 0 ELSE IF Q < 0 THEN 65535 ELSE Q
    IN IF (a >= 0) = (b > 0) THEN ToI32(hi, lo) ELSE NegI32(hi, lo)

fixed_div(a, b) ==
    IF b = 0 THEN (IF a >= 0 THEN FIXED_MAX ELSE FIXED_MIN)
    ELSE IF fixed_abs(a) <= 16383
    THEN LET temp == a * 65536
             rounded == IF temp >= 0 THEN temp + (b \div 2) ELSE temp - (b \div 2)
         IN TruncDiv(rounded, b)
    ELSE FixedDivWide(a, b)

\* The Newton-Raphson loop of fixed_sqrt: i passes remain.
RECURSIVE FixedSqrtLoop(_, _, _)
FixedSqrtLoop(x, guess, i) ==
    IF i = 0 THEN guess
    ELSE LET div_result == fixed_div(x, guess)
             Step(new_guess) ==
                 IF fixed_abs(new_guess - guess) < 16 THEN guess
                 ELSE FixedSqrtLoop(x, new_guess, i - 1)
         IN With((guess + div_result) \div 2, Step)

fixed_sqrt(x) ==
    IF x <= 0 THEN 0
    ELSE LET Start(guess) == FixedSqrtLoop(x, guess, 8)
         IN With(IF x \div 2 = 0 THEN FIXED_ONE ELSE x \div 2, Start)

clustering_distance_euclidean(a, b) ==
    LET dx == a.x - b.x
        dy == a.y - b.y
    IN With(fixed_mul(dx, dx) + fixed_mul(dy, dy), fixed_sqrt)

\* Centroid_t and KMeansResult_t after memset.
ZeroCentroid == [x |-> 0, y |-> 0, point_count |-> 0, inertia |-> 0]

ZeroKMeansResult ==
    [centroids |-> LET At(i) == ZeroCentroid IN ArrayOf(At, KMEANS_MAX_K), k |-> 0,
     iterations |-> 0, converged |-> FALSE, total_inertia |-> 0,
     silhouette_score |-> 0]

\* The inner loop of clustering_kmeans_assign_points: centroids j..k-1 tried
\* against the best so far, best = [min_distance, best_cluster].
RECURSIVE NearestCentroid(_, _, _, _, _)
NearestCentroid(centroids, k, point, j, best) ==
    IF j >= k THEN best
    ELSE LET Better(dist) == IF dist < best.min_distance
                             THEN [min_distance |-> dist, best_cluster |-> j]
                             ELSE best
             Rest(b) == NearestCentroid(centroids, k, point, j + 1, b)
         IN With(With(clustering_distance_euclidean(point, centroids[j + 1]), Better),
                 Rest)

\* The cluster of point p: the nearest of the first k centroids, the lowest
\* index among equals.
AssignBest(centroids, k, p) ==
    NearestCentroid(centroids, k, p, 0, [min_distance |-> FIXED_MAX, best_cluster |-> 0])

\* A variant of the pass that counts a point only when its cluster changes.
AssignPointBodyCountChanged(k, points, st) ==
    LET p == points[Len(st.points) + 1]
        Assign(best) ==
            LET c == best.best_cluster + 1
                sq_dist == fixed_mul(best.min_distance, best.min_distance)
            IN [centroids |-> [st.centroids EXCEPT
                                  ![c].point_count =
                                      IF p.cluster_id # best.best_cluster
                                      THEN ToU16(@ + 1) ELSE @,
                                  ![c].inertia = @ + sq_dist],
                changed |-> st.changed \/ p.cluster_id # best.best_cluster,
                points |-> Append(st.points, [p EXCEPT !.cluster_id = best.best_cluster])]
    IN With(AssignBest(st.centroids, k, p), Assign)

\* One pass of the point loop of clustering_kmeans_assign_points, over the
\* point after those already in st.points: st = [centroids, changed, points].
\* The cluster_id is written into the data set through the const pointer.
AssignPointBody(k, points, st) ==
    LET p == points[Len(st.points) + 1]
        Assign(best) ==
            LET c == best.best_cluster + 1
                sq_dist == fixed_mul(best.min_distance, best.min_distance)
            IN [centroids |-> [st.centroids EXCEPT ![c].point_count = ToU16(@ + 1),
                                                   ![c].inertia = @ + sq_dist],
                changed |-> st.changed \/ p.cluster_id # best.best_cluster,
                points |-> Append(st.points, [p EXCEPT !.cluster_id = best.best_cluster])]
    IN With(AssignBest(st.centroids, k, p), Assign)

\* clustering_kmeans_assign_points: [centroids, changed, points].
clustering_kmeans_assign_points(centroids, k, points) ==
    LET Reset(j) == IF j <= k THEN [centroids[j] EXCEPT !.point_count = 0, !.inertia = 0]
                    ELSE centroids[j]
        Body(st) == AssignPointBody(k, points, st)
    IN Iterate(Body, [centroids |-> ArrayOf(Reset, KMEANS_MAX_K), changed |-> FALSE,
                      points |-> <<>>], Len(points))

\* One pass of the accumulation loop of clustering_kmeans_update_centroids.
CentroidSumBody(points, st) ==
    LET p == points[st.i + 1]
        c == p.cluster_id + 1
    IN [sum_x |-> [st.sum_x EXCEPT ![c] = @ + p.x],
        sum_y |-> [st.sum_y EXCEPT ![c] = @ + p.y],
        counts |-> [st.counts EXCEPT ![c] = ToU16(@ + 1)],
        i |-> st.i + 1]

clustering_kmeans_update_centroids(centroids, k, points) ==
    LET Zero(j) == 0
        zero == ArrayOf(Zero, KMEANS_MAX_K)
        Body(st) == CentroidSumBody(points, st)
        Means(s) ==
            LET Mean(j) == IF j <= k /\ s.counts[j] > 0
                           THEN [centroids[j] EXCEPT
                                    !.x = TruncDiv(s.sum_x[j], s.counts[j]),
                                    !.y = TruncDiv(s.sum_y[j], s.counts[j])]
                           ELSE centroids[j]
            IN ArrayOf(Mean, KMEANS_MAX_K)
    IN With(Iterate(Body, [sum_x |-> zero, sum_y |-> zero, counts |-> zero, i |-> 0],
                    Len(points)),
            Means)

RECURSIVE CentroidMovement(_, _, _)
CentroidMovement(prev, current, i) ==
    IF i = 0 THEN 0
    ELSE fixed_abs(current[i].x - prev[i].x) + fixed_abs(current[i].y - prev[i].y)
           + CentroidMovement(prev, current, i - 1)

clustering_kmeans_check_convergence(prev, current) ==
    CentroidMovement(prev.centroids, current.centroids, current.k) < FIXED_ONE \div 200

RECURSIVE TotalInertia(_, _)
TotalInertia(centroids, i) ==
    IF i = 0 THEN 0 ELSE centroids[i].inertia + TotalInertia(centroids, i - 1)

\* The loop of clustering_kmeans_iterative from pass iter on: [result, points].
RECURSIVE KMeansLoop(_, _, _)
KMeansLoop(result, points, iter) ==
    IF iter >= KMEANS_MAX_ITERATIONS THEN [result |-> result, points |-> points]
    ELSE LET Update(a) ==
                 LET Test(next) ==
                         IF clustering_kmeans_check_convergence(result, next)
                         THEN [result |-> [next EXCEPT !.converged = TRUE],
                               points |-> a.points]
                         ELSE KMeansLoop(next, a.points, iter + 1)
                 IN With([result EXCEPT
                             !.centroids = clustering_kmeans_update_centroids(
                                               a.centroids, result.k, a.points),
                             !.iterations = iter + 1],
                         Test)
         IN With(clustering_kmeans_assign_points(result.centroids, result.k, points),
                 Update)

clustering_kmeans_iterative(result, points) ==
    LET Inertia(r) ==
            [result |-> [r.result EXCEPT !.total_inertia =
                                             TotalInertia(r.result.centroids, r.result.k)],
             points |-> r.points]
    IN With(KMeansLoop(result, points, 0), Inertia)

\* The j-loops of clustering_silhouette_score for point i (from 0): the sum
\* of the distances from point i to the points of cluster c other than i
\* itself, and their number.  st = [dist, count, j].
SilhouetteSumBody(points, i, c, st) ==
    IF st.j # i /\ points[st.j + 1].cluster_id = c
    THEN [dist |-> st.dist + clustering_distance_euclidean(points[i + 1], points[st.j + 1]),
          count |-> st.count + 1, j |-> st.j + 1]
    ELSE [dist |-> st.dist, count |-> st.count, j |-> st.j + 1]

SilhouetteSum(points, i, c) ==
    LET Body(st) == SilhouetteSumBody(points, i, c, st)
    IN Iterate(Body, [dist |-> 0, count |-> 0, j |-> 0], Len(points))

\* b(i): the least mean distance to the points of another cluster, clusters
\* c..k-1 still to try.  The point itself is in none of them.
RECURSIVE SilhouetteB(_, _, _, _, _, _)
SilhouetteB(points, k, i, own_cluster, c, b) ==
    IF c >= k THEN b
    ELSE IF c = own_cluster THEN SilhouetteB(points, k, i, own_cluster, c + 1, b)
    ELSE LET Least(s) ==
                 LET dist == IF s.count > 0 THEN TruncDiv(s.dist, s.count) ELSE 0
                 IN IF s.count > 0 /\ dist < b THEN dist ELSE b
             Rest(least) == SilhouetteB(points, k, i, own_cluster, c + 1, least)
         IN With(With(SilhouetteSum(points, i, c), Least), Rest)

\* One pass of the outer loop of clustering_silhouette_score.
SilhouettePointBody(points, k, st) ==
    LET own_cluster == points[st.i + 1].cluster_id
        Score(ab) ==
            LET a == ab[1]
                b == ab[2]
                max_ab == IF a > b THEN a ELSE b
            IN [total_score |-> IF max_ab > 0
                                THEN st.total_score + fixed_div(b - a, max_ab)
                                ELSE st.total_score,
                i |-> st.i + 1]
        MeanOwn(own) == IF own.count > 0 THEN TruncDiv(own.dist, own.count) ELSE own.dist
    IN With(<<With(SilhouetteSum(points, st.i, own_cluster), MeanOwn),
              SilhouetteB(points, k, st.i, own_cluster, 0, FIXED_MAX)>>,
            Score)

clustering_silhouette_score(points, k) ==
    IF k < 2 \/ Len(points) < 2 THEN 0
    ELSE LET Body(st) == SilhouettePointBody(points, k, st)
         IN TruncDiv(Iterate(Body, [total_score |-> 0, i |-> 0], Len(points)).total_score,
                     Len(points))

\* clustering_kmeans(data, k): the result returned and the points of data,
\* whose cluster_id fields the run rewrites.
clustering_kmeans(points, k) ==
    LET k1 == IF k = 0 \/ k > KMEANS_MAX_K THEN 3 ELSE k
        k2 == IF k1 > Len(points) THEN Len(points) ELSE k1
        Seed(i) == IF i <= k2
                   THEN [x |-> points[i].x, y |-> points[i].y,
                         point_count |-> 0, inertia |-> 0]
                   ELSE ZeroCentroid
        seeded == [ZeroKMeansResult EXCEPT !.k = k2,
                                           !.centroids = ArrayOf(Seed, KMEANS_MAX_K)]
        Score(r) ==
            [result |-> [r.result EXCEPT !.silhouette_score =
                            clustering_silhouette_score(r.points, r.result.k)],
             points |-> r.points]
        Run(seed) == With(clustering_kmeans_iterative(seed, points), Score)
    IN With(seeded, Run)

\* The streaming state after clustering_engine_init.
ZeroStreaming ==
    [dataset |-> [points |-> <<>>, num_features |-> 0],
     result |-> ZeroKMeansResult,
     active |-> FALSE]

clustering_init_streaming(k) ==
    [dataset |-> [points |-> <<>>, num_features |-> 0],
     result |-> [ZeroKMeansResult EXCEPT !.k = k],
     active |-> TRUE]

\* Lines 327-331 of clustering_add_point_streaming: the guards and the copy
\* of the point into the data set.
StreamingStore(s, point) ==
    IF ~s.active THEN s
    ELSE IF Len(s.dataset.points) >= MAX_PULSE_COUNT THEN s
    ELSE [s EXCEPT !.dataset.points = Append(@, point)]

\* Lines 333-336: whether this call re-clusters.
StreamingRecluster(s, point) ==
    /\ s.active
    /\ Len(s.dataset.points) < MAX_PULSE_COUNT
    /\ (Len(s.dataset.points) + 1) % 50 = 0

clustering_add_point_streaming(s, point) ==
    LET Recluster(stored) ==
            LET Assign(r) == [stored EXCEPT !.dataset.points = r.points,
                                            !.result = r.result]
            IN With(clustering_kmeans(stored.dataset.points, stored.result.k), Assign)
    IN IF StreamingRecluster(s, point)
       THEN With(StreamingStore(s, point), Recluster)
       ELSE StreamingStore(s, point)

clustering_get_streaming_result(s) == s.result

\* clustering_reset_streaming with the result cleared as well.
clustering_reset_streaming_result(s) ==
    [s EXCEPT !.dataset = [points |-> <<>>, num_features |-> 0],
              !.result = ZeroKMeansResult]

clustering_reset_streaming(s) ==
    [s EXCEPT !.dataset = [points |-> <<>>, num_features |-> 0]]

(***************************************************************************)
(* Ingest buffers of the analysis engines: protocol_infer.c (pulses and    *)
(* frames), threat_model.c (payloads) and the streaming data set of        *)
(* clustering.c.  An array with a count field is a sequence whose length   *)
(* is the count: the elements beyond the count are never read.             *)
(***************************************************************************)

\* MAX_FRAME_SAMPLES is 100 in protocol_infer.h and 256 in threat_model.h.
INFER_MAX_FRAME_SAMPLES == 100
THREAT_MAX_FRAME_SAMPLES == 256
MAX_PAYLOAD_SIZE == 64

\* ProtocolInferState_t after protocol_infer_init, as far as ingest uses it.
ZeroInferState ==
    [pulses |-> <<>>, frames |-> <<>>, analyzing |-> FALSE, samples_collected |-> 0]

\* samples_collected is zeroed with pulse_count and counts with it, so it
\* stays far below the 32 bits it has.
protocol_infer_add_pulse(s, pulse) ==
    IF Len(s.pulses) >= MAX_PULSE_COUNT THEN s
    ELSE [s EXCEPT !.pulses = Append(@, pulse),
                   !.samples_collected = @ + 1]

protocol_infer_add_frame_unchecked(s, frame) ==
    [s EXCEPT !.frames = Append(@, frame)]

protocol_infer_add_frame(s, frame) ==
    IF Len(s.frames) >= INFER_MAX_FRAME_SAMPLES THEN s
    ELSE [s EXCEPT !.frames = Append(@, frame)]

protocol_infer_reset(s) ==
    [s EXCEPT !.pulses = <<>>, !.frames = <<>>, !.samples_collected = 0]

THREAT_STATE_IDLE == "THREAT_STATE_IDLE"
THREAT_STATE_COLLECTING == "THREAT_STATE_COLLECTING"

\* byte_frequencies[b] is at position b + 1.
ZeroThreatContext ==
    [payloads |-> <<>>, payload_lengths |-> <<>>,
     byte_frequencies |-> LET Zero(j) == 0 IN ArrayOf(Zero, 256),
     total_bytes |-> 0, state |-> THREAT_STATE_IDLE]

\* One pass of the loop of threat_model_update_byte_frequencies:
\* st = [ctx, i].  The counters are uint8_t.
ByteFrequencyBody(data, st) ==
    [ctx |-> [st.ctx EXCEPT !.byte_frequencies[data[st.i + 1] + 1] = ToU8(@ + 1),
                            !.total_bytes = @ + 1],
     i |-> st.i + 1]

threat_model_update_byte_frequencies(ctx, data, len) ==
    LET Body(st) == ByteFrequencyBody(data, st)
    IN Iterate(Body, [ctx |-> ctx, i |-> 0], len).ctx

\* The memcpy into payloads[idx], the length and the count of
\* threat_model_add_frame and threat_model_add_payload.
StorePayload(ctx, data, len) ==
    [ctx EXCEPT !.payloads = Append(@, SubSeq(data, 1, len)),
                !.payload_lengths = Append(@, len)]

threat_model_add_frame(ctx, frame) ==
    IF Len(ctx.payloads) >= THREAT_MAX_FRAME_SAMPLES THEN ctx
    ELSE LET len == IF frame.length < MAX_PAYLOAD_SIZE THEN frame.length
                    ELSE MAX_PAYLOAD_SIZE
         IN threat_model_update_byte_frequencies(
                StorePayload(ctx, frame.data, len), frame.data, len)

threat_model_add_payload(ctx, data, len) ==
    IF Len(ctx.payloads) >= THREAT_MAX_FRAME_SAMPLES THEN ctx
    ELSE LET copy_len == IF len < MAX_PAYLOAD_SIZE THEN len ELSE MAX_PAYLOAD_SIZE
         IN threat_model_update_byte_frequencies(
                StorePayload(ctx, data, copy_len), data, len)

threat_model_start_analysis == [ZeroThreatContext EXCEPT !.state = THREAT_STATE_COLLECTING]

threat_model_stop_analysis(ctx) == [ctx EXCEPT !.state = THREAT_STATE_IDLE]

\* threat_model_init: the context it leaves.
threat_model_init(ctx, initialized) ==
    IF initialized THEN ctx ELSE ZeroThreatContext

clustering_engine_init == ZeroStreaming

(***************************************************************************)
(* Ingest harness.  The engines share no state, so one is driven at a time *)
(* while the others are as constructed; inside protocol inference one      *)
(* buffer is driven while the other is empty or full.                      *)
(***************************************************************************)

\* Points are re-clustered with k of 2 or more only up to this many, the
\* silhouette score being quadratic in the number of points.
MaxClusteredPoints == 60

\* The k values given to clustering_init_streaming.
StreamingKs == {1, 3}

PulseAt(n) ==
    [width_us |-> 300 + 300 * (n % 2) + (n % 5), level |-> (n + 1) % 2,
     timestamp_us |-> 650 * n]

DataPointAt(n) ==
    [x |-> (n % 7) * 4000, y |-> (n % 3) * 9000, cluster_id |-> 0, frame_id |-> n % 4]

PayloadAt(n) == <<n % 256, 170, (7 * n) % 256>>

\* Frame_t.data is an array of 64 bytes.
FrameData(payload) ==
    LET At(j) == IF j <= Len(payload) THEN payload[j] ELSE 0
    IN ArrayOf(At, 64)

\* The item offered to a buffer holding n items of cap: the next of the
\* stream, or another one for the last slot and for a full buffer.
Offered(n, cap, item, other) ==
    IF n >= cap - 1 THEN {item, other} ELSE {item}

InferPulses(n) ==
    Offered(n, MAX_PULSE_COUNT, PulseAt(n), [PulseAt(n) EXCEPT !.width_us = 65535])

InferFrames(n) ==
    Offered(n, INFER_MAX_FRAME_SAMPLES, FrameAt(n), [FrameAt(n) EXCEPT !.length = 0])

StreamPoints(n) ==
    Offered(n, MAX_PULSE_COUNT, DataPointAt(n), [DataPointAt(n) EXCEPT !.x = 12000])

\* Frames offered to the threat model: three bytes long; the first one and
\* those at the end of the buffer also with all 64 bytes in use.
ThreatFrames(n) ==
    LET frame == [data |-> FrameData(PayloadAt(n)), length |-> 3]
    IN IF n = 0 \/ n >= THREAT_MAX_FRAME_SAMPLES - 1
       THEN {frame, [frame EXCEPT !.length = 64]}
       ELSE {frame}

\* Raw payloads offered to the threat model as [data, len]; the first one
\* and those at the end of the buffer also 65 bytes long.
ThreatPayloads(n) ==
    LET At(j) == (n + j) % 256
        long == ArrayOf(At, 65)
    IN IF n = 0 \/ n >= THREAT_MAX_FRAME_SAMPLES - 1
       THEN {[data |-> PayloadAt(n), len |-> 3], [data |-> long, len |-> 65]}
       ELSE {[data |-> PayloadAt(n), len |-> 3]}

InferIdle == infer_state = ZeroInferState
ThreatIdle == analysis_context = ZeroThreatContext /\ threat_model_initialized = TRUE
StreamIdle == streaming = ZeroStreaming

EnginesIdle == InferIdle /\ StreamIdle

IngestIdle ==
    /\ ThreatIdle
    /\ ing_op = "none" /\ ing_entry_count = 0

AddPulse ==
    /\ ThreatIdle /\ StreamIdle
    /\ Len(infer_state.frames) \in {0, INFER_MAX_FRAME_SAMPLES}
    /\ \E pulse \in InferPulses(Len(infer_state.pulses)) :
           infer_state' = protocol_infer_add_pulse(infer_state, pulse)
    /\ ing_op' = "protocol_infer_add_pulse"
    /\ ing_entry_count' = Len(infer_state.pulses)
    /\ UNCHANGED <<streaming, analysis_context, threat_model_initialized>>
    /\ UNCHANGED nonIngestVars

AddFrame ==
    /\ ThreatIdle /\ StreamIdle
    /\ Len(infer_state.pulses) \in {0, MAX_PULSE_COUNT}
    /\ \E frame \in InferFrames(Len(infer_state.frames)) :
           infer_state' = protocol_infer_add_frame(infer_state, frame)
    /\ ing_op' = "protocol_infer_add_frame"
    /\ ing_entry_count' = Len(infer_state.frames)
    /\ UNCHANGED <<streaming, analysis_context, threat_model_initialized>>
    /\ UNCHANGED nonIngestVars

InferReset ==
    /\ ThreatIdle /\ StreamIdle
    /\ infer_state' = protocol_infer_reset(infer_state)
    /\ ing_op' = "protocol_infer_reset"
    /\ ing_entry_count' = 0
    /\ UNCHANGED <<streaming, analysis_context, threat_model_initialized>>
    /\ UNCHANGED nonIngestVars

ThreatStartAnalysis ==
    /\ InferIdle /\ StreamIdle
    /\ analysis_context' = threat_model_start_analysis
    /\ ing_op' = "threat_model_start_analysis"
    /\ ing_entry_count' = 0
    /\ UNCHANGED <<infer_state, streaming, threat_model_initialized>>
    /\ UNCHANGED nonIngestVars

ThreatStopAnalysis ==
    /\ InferIdle /\ StreamIdle
    /\ analysis_context' = threat_model_stop_analysis(analysis_context)
    /\ ing_op' = "threat_model_stop_analysis"
    /\ ing_entry_count' = 0
    /\ UNCHANGED <<infer_state, streaming, threat_model_initialized>>
    /\ UNCHANGED nonIngestVars

ThreatAddFrame ==
    /\ InferIdle /\ StreamIdle
    /\ \E frame \in ThreatFrames(Len(analysis_context.payloads)) :
           analysis_context' = threat_model_add_frame(analysis_context, frame)
    /\ ing_op' = "threat_model_add_frame"
    /\ ing_entry_count' = Len(analysis_context.payloads)
    /\ UNCHANGED <<infer_state, streaming, threat_model_initialized>>
    /\ UNCHANGED nonIngestVars

ThreatAddPayload ==
    /\ InferIdle /\ StreamIdle
    /\ \E payload \in ThreatPayloads(Len(analysis_context.payloads)) :
           analysis_context' =
               threat_model_add_payload(analysis_context, payload.data, payload.len)
    /\ ing_op' = "threat_model_add_payload"
    /\ ing_entry_count' = Len(analysis_context.payloads)
    /\ UNCHANGED <<infer_state, streaming, threat_model_initialized>>
    /\ UNCHANGED nonIngestVars

ThreatDeinit ==
    /\ InferIdle /\ StreamIdle
    /\ threat_model_initialized' = FALSE
    /\ ing_op' = "threat_model_deinit"
    /\ ing_entry_count' = 0
    /\ UNCHANGED <<infer_state, streaming, analysis_context>>
    /\ UNCHANGED nonIngestVars

ThreatInit ==
    /\ InferIdle /\ StreamIdle
    /\ analysis_context' = threat_model_init(analysis_context, threat_model_initialized)
    /\ threat_model_initialized' = TRUE
    /\ ing_op' = "threat_model_init"
    /\ ing_entry_count' = 0
    /\ UNCHANGED <<infer_state, streaming>>
    /\ UNCHANGED nonIngestVars

InitStreaming ==
    /\ InferIdle /\ ThreatIdle
    /\ \E k \in StreamingKs : streaming' = clustering_init_streaming(k)
    /\ ing_op' = "clustering_init_streaming"
    /\ ing_entry_count' = 0
    /\ UNCHANGED <<infer_state, analysis_context, threat_model_initialized>>
    /\ UNCHANGED nonIngestVars

AddPointStreaming ==
    /\ InferIdle /\ ThreatIdle
    /\ streaming.result.k = 1 \/ Len(streaming.dataset.points) < MaxClusteredPoints
    /\ \E point \in StreamPoints(Len(streaming.dataset.points)) :
           streaming' = clustering_add_point_streaming(streaming, point)
    /\ ing_op' = "clustering_add_point_streaming"
    /\ ing_entry_count' = Len(streaming.dataset.points)
    /\ UNCHANGED <<infer_state, analysis_context, threat_model_initialized>>
    /\ UNCHANGED nonIngestVars

ResetStreaming ==
    /\ InferIdle /\ ThreatIdle
    /\ \/ Len(streaming.dataset.points) <= MaxClusteredPoints
       \/ Len(streaming.dataset.points) = MAX_PULSE_COUNT
    /\ streaming' = clustering_reset_streaming(streaming)
    /\ ing_op' = "clustering_reset_streaming"
    /\ ing_entry_count' = 0
    /\ UNCHANGED <<infer_state, analysis_context, threat_model_initialized>>
    /\ UNCHANGED nonIngestVars

ClusteringEngineInit ==
    /\ InferIdle /\ ThreatIdle
    /\ streaming' = clustering_engine_init
    /\ ing_op' = "clustering_engine_init"
    /\ ing_entry_count' = 0
    /\ UNCHANGED <<infer_state, analysis_context, threat_model_initialized>>
    /\ UNCHANGED nonIngestVars

NextIngest ==
    \/ AddPulse \/ AddFrame \/ InferReset
    \/ ThreatStartAnalysis \/ ThreatStopAnalysis \/ ThreatAddFrame \/ ThreatAddPayload
    \/ ThreatDeinit \/ ThreatInit
    \/ InitStreaming \/ AddPointStreaming \/ ResetStreaming \/ ClusteringEngineInit

(***************************************************************************)
(* Claims about ingest at capacity                                         *)
(***************************************************************************)

AddOps ==
    {"protocol_infer_add_pulse", "protocol_infer_add_frame", "threat_model_add_frame",
     "threat_model_add_payload", "clustering_add_point_streaming"}

\* The count and the capacity of the buffer that add operation op fills.
BufferCount(op) ==
    CASE op = "protocol_infer_add_pulse" -> Len(infer_state.pulses)
      [] op = "protocol_infer_add_frame" -> Len(infer_state.frames)
      [] op = "clustering_add_point_streaming" -> Len(streaming.dataset.points)
      [] OTHER -> Len(analysis_context.payloads)

BufferCapacity(op) ==
    CASE op = "protocol_infer_add_pulse" -> MAX_PULSE_COUNT
      [] op = "protocol_infer_add_frame" -> INFER_MAX_FRAME_SAMPLES
      [] op = "clustering_add_point_streaming" -> MAX_PULSE_COUNT
      [] OTHER -> THREAT_MAX_FRAME_SAMPLES

CountsWithinCapacity ==
    \A op \in AddOps : BufferCount(op) <= BufferCapacity(op)

\* An add entered with its buffer full leaves every engine as it was.
DroppedAtCapacity ==
    \A op \in AddOps :
        (ing_op' = op /\ BufferCount(op) >= BufferCapacity(op)) =>
            /\ infer_state' = infer_state
            /\ analysis_context' = analysis_context
            /\ streaming' = streaming

\* The sum of counters[lo + 1 .. hi].
RECURSIVE SumCounters(_, _, _)
SumCounters(counters, lo, hi) ==
    IF hi = lo THEN 0
    ELSE IF hi = lo + 1 THEN counters[hi]
    ELSE LET mid == (lo + hi) \div 2
         IN SumCounters(counters, lo, mid) + SumCounters(counters, mid, hi)

\* C30: whatever frames and payloads have been added to the threat model,
\* the 256 byte-frequency counters sum to total_bytes: no counter has
\* wrapped or lost a count.
C30_FrequenciesSumToTotal ==
    SumCounters(analysis_context.byte_frequencies, 0, 256) = analysis_context.total_bytes

\* C7: an item ingested into a buffer that is at capacity (pulses and frames
\* of protocol inference, payloads of the threat model, points of the
\* streaming data set) is dropped, the stored items and their count staying
\* as they were, and no count ever exceeds its capacity.
C7_DropAtCapacity ==
    /\ [](CountsWithinCapacity)
    /\ [][DroppedAtCapacity]_vars

\* A frame was offered to protocol inference with its frame buffer and its
\* pulse buffer both full.
C7_Witness ==
    /\ ing_op = "protocol_infer_add_frame"
    /\ ing_entry_count = INFER_MAX_FRAME_SAMPLES
    /\ Len(infer_state.frames) = INFER_MAX_FRAME_SAMPLES
    /\ Len(infer_state.pulses) = MAX_PULSE_COUNT

ThreadIdle ==
    /\ cap_pc = "idle" /\ cap_result = ZeroKMeansResult
    /\ ana_pc = "idle" /\ ana_snapshot = ZeroKMeansResult /\ ana_returned = FALSE
    /\ published = {ZeroKMeansResult}


(***************************************************************************)
(* The worker threads (core/flipper_rf_lab_main.c).  rf_capture_worker and *)
(* analysis_worker run concurrently; the engines take no lock and the      *)
(* FuriMutex of the application context is never allocated.  An engine     *)
(* call is a sequence of steps, between which the other thread may run.    *)
(* A structure is copied in two parts, in address order: the centroids     *)
(* array, then the scalar fields after it.                                 *)
(***************************************************************************)

\* The engine calls made on behalf of each thread: ingest by the RF capture
\* thread, analysis and queries by the analysis thread.
CaptureThreadOps == {"clustering_add_point_streaming", "protocol_infer_add_pulse"}
AnalysisThreadOps == {"clustering_get_streaming_result", "protocol_infer_analyze"}

\* Points and pulses ingested in the thread model.
MaxThreadPoints == 100
MaxThreadPulses == 11

\* The k values given to clustering_init_streaming in the thread model.
ThreadKs == {1, 2}

\* The two parts of a KMeansResult_t copy from src into dst.
CopyCentroids(dst, src) == [dst EXCEPT !.centroids = src.centroids]

CopyScalars(dst, src) ==
    [dst EXCEPT !.k = src.k, !.iterations = src.iterations,
                !.converged = src.converged, !.total_inertia = src.total_inertia,
                !.silhouette_score = src.silhouette_score]

\* The entry test of protocol_infer_analyze.
InsufficientData(s) == Len(s.pulses) < 10 /\ Len(s.frames) < 2

\* clustering_init_streaming, called before the workers use the engine.
ThreadInitStreaming ==
    /\ cap_pc = "idle" /\ ana_pc = "idle"
    /\ InferIdle /\ StreamIdle
    /\ \E k \in ThreadKs : streaming' = clustering_init_streaming(k)
    /\ published' = published \cup {streaming'.result}
    /\ UNCHANGED <<infer_state, cap_pc, cap_result, ana_pc, ana_snapshot, ana_returned>>
    /\ UNCHANGED nonThreadVars

\* protocol_infer_reset, called while no worker is inside the engine.
ThreadInferReset ==
    /\ cap_pc = "idle" /\ ana_pc = "idle"
    /\ StreamIdle /\ ~InferIdle
    /\ infer_state' = protocol_infer_reset(infer_state)
    /\ UNCHANGED <<streaming, threadVars>>
    /\ UNCHANGED nonThreadVars

\* clustering_add_point_streaming, lines 327-331 and the test of line 334.
CapStorePoint ==
    /\ "clustering_add_point_streaming" \in CaptureThreadOps
    /\ cap_pc = "idle" /\ InferIdle
    /\ Len(streaming.dataset.points) < MaxThreadPoints
    /\ LET point == DataPointAt(Len(streaming.dataset.points))
       IN /\ streaming' = StreamingStore(streaming, point)
          /\ cap_pc' = IF StreamingRecluster(streaming, point) THEN "kmeans" ELSE "idle"
    /\ UNCHANGED <<infer_state, cap_result, ana_pc, ana_snapshot, ana_returned, published>>
    /\ UNCHANGED nonThreadVars

\* Line 335: the call of clustering_kmeans, which returns its result by value.
CapKMeans ==
    /\ cap_pc = "kmeans"
    /\ \E r \in {clustering_kmeans(streaming.dataset.points, streaming.result.k)} :
          /\ streaming' = [streaming EXCEPT !.dataset.points = r.points]
          /\ cap_result' = r.result
    /\ cap_pc' = "assign_centroids"
    /\ UNCHANGED <<infer_state, ana_pc, ana_snapshot, ana_returned, published>>
    /\ UNCHANGED nonThreadVars

\* Line 335: the assignment to streaming_result, first part.
CapAssignCentroids ==
    /\ cap_pc = "assign_centroids"
    /\ streaming' = [streaming EXCEPT !.result = CopyCentroids(@, cap_result)]
    /\ cap_pc' = "assign_scalars"
    /\ UNCHANGED <<infer_state, cap_result, ana_pc, ana_snapshot, ana_returned, published>>
    /\ UNCHANGED nonThreadVars

\* Line 335: the assignment to streaming_result, second part.
CapAssignScalars ==
    /\ cap_pc = "assign_scalars"
    /\ streaming' = [streaming EXCEPT !.result = CopyScalars(@, cap_result)]
    /\ published' = published \cup {streaming'.result}
    /\ cap_pc' = "idle"
    /\ cap_result' = ZeroKMeansResult
    /\ UNCHANGED <<infer_state, ana_pc, ana_snapshot, ana_returned>>
    /\ UNCHANGED nonThreadVars

\* protocol_infer_add_pulse, lines 22-25: the pulse is stored and counted.
CapStorePulse ==
    /\ "protocol_infer_add_pulse" \in CaptureThreadOps
    /\ cap_pc = "idle" /\ StreamIdle
    /\ Len(infer_state.pulses) < MaxThreadPulses
    /\ infer_state' = [infer_state EXCEPT !.pulses = Append(@, PulseAt(Len(@)))]
    /\ cap_pc' = "samples_collected"
    /\ UNCHANGED <<streaming, cap_result, ana_pc, ana_snapshot, ana_returned, published>>
    /\ UNCHANGED nonThreadVars

\* protocol_infer_add_pulse, line 26.
CapCountSample ==
    /\ cap_pc = "samples_collected"
    /\ infer_state' = [infer_state EXCEPT !.samples_collected = @ + 1]
    /\ cap_pc' = "idle"
    /\ UNCHANGED <<streaming, cap_result, ana_pc, ana_snapshot, ana_returned, published>>
    /\ UNCHANGED nonThreadVars

\* clustering_get_streaming_result: the copy into the caller's result,
\* first part.
AnaCopyCentroids ==
    /\ "clustering_get_streaming_result" \in AnalysisThreadOps
    /\ ana_pc = "idle" /\ InferIdle /\ streaming.active
    /\ ana_snapshot' = CopyCentroids(ZeroKMeansResult, streaming.result)
    /\ ana_returned' = FALSE
    /\ ana_pc' = "copy_scalars"
    /\ UNCHANGED <<infer_state, streaming, cap_pc, cap_result, published>>
    /\ UNCHANGED nonThreadVars

\* clustering_get_streaming_result: second part and return.
AnaCopyScalars ==
    /\ ana_pc = "copy_scalars"
    /\ ana_snapshot' = CopyScalars(ana_snapshot, streaming.result)
    /\ ana_returned' = TRUE
    /\ ana_pc' = "idle"
    /\ UNCHANGED <<infer_state, streaming, cap_pc, cap_result, published>>
    /\ UNCHANGED nonThreadVars

\* protocol_infer_analyze, lines 50-55: the entry test and the flag.
AnaAnalyzeBegin ==
    /\ "protocol_infer_analyze" \in AnalysisThreadOps
    /\ ana_pc = "idle" /\ StreamIdle
    /\ IF InsufficientData(infer_state)
       THEN UNCHANGED <<infer_state, ana_pc>>
       ELSE /\ infer_state' = [infer_state EXCEPT !.analyzing = TRUE]
            /\ ana_pc' = "analyzing"
    /\ UNCHANGED <<streaming, cap_pc, cap_result, ana_snapshot, ana_returned, published>>
    /\ UNCHANGED nonThreadVars

\* protocol_infer_analyze, lines 57-81: the pipeline over the pulses and
\* frames, and the flag cleared.  The histograms, clusters and hypothesis
\* the pipeline writes are not part of infer_state here.
AnaAnalyzeEnd ==
    /\ ana_pc = "analyzing"
    /\ infer_state' = [infer_state EXCEPT !.analyzing = FALSE]
    /\ ana_pc' = "idle"
    /\ UNCHANGED <<streaming, cap_pc, cap_result, ana_snapshot, ana_returned, published>>
    /\ UNCHANGED nonThreadVars

NextThreads ==
    \/ ThreadInitStreaming \/ ThreadInferReset
    \/ CapStorePoint \/ CapKMeans \/ CapAssignCentroids \/ CapAssignScalars
    \/ CapStorePulse \/ CapCountSample
    \/ AnaCopyCentroids \/ AnaCopyScalars
    \/ AnaAnalyzeBegin \/ AnaAnalyzeEnd

(***************************************************************************)
(* Claims about the two surfaces                                           *)
(***************************************************************************)

\* C5: ingest and analyze/query never access engine state concurrently:
\* while the analysis thread is inside an analyze or query operation the
\* capture thread is inside no ingest operation.
C5_SurfacesSerialised ==
    ~(cap_pc # "idle" /\ ana_pc # "idle")

\* C6: the result a query returns is one that streaming_result held between
\* two assignments: all its fields come from one completed state.
C6_SnapshotConsistent ==
    ana_returned => ana_snapshot \in published

(***************************************************************************)
(* clustering_kmeans on caller data sets                                   *)
(***************************************************************************)

MaxKMeansPoints == 4      \* points of a data set given to clustering_kmeans

\* Coordinates in Q15.16: two points close together and one far from them.
KMeansPoints ==
    {[x |-> 0, y |-> 0, cluster_id |-> 0, frame_id |-> 0],
     [x |-> 2000, y |-> 1000, cluster_id |-> 0, frame_id |-> 0],
     [x |-> 24000, y |-> 18000, cluster_id |-> 0, frame_id |-> 0]}

\* The k values a caller may give: 0 and 6 select the default.
KMeansKs == {0, 1, 2, 3, 5, 6}

KmIdle ==
    /\ km_data = <<>> /\ km_k = 0 /\ km_result = ZeroKMeansResult /\ km_op = "none"

\* The caller fills its Dataset_t.
KmAddPoint ==
    /\ Len(km_data) < MaxKMeansPoints
    /\ \E p \in KMeansPoints : km_data' = Append(km_data, p)
    /\ km_op' = "add_point"
    /\ km_k' = 0 /\ km_result' = ZeroKMeansResult
    /\ UNCHANGED nonKmVars

KmRun ==
    /\ \E k \in KMeansKs :
         \E r \in {clustering_kmeans(km_data, k)} :
            /\ km_k' = k
            /\ km_result' = r.result
            /\ km_data' = r.points
    /\ km_op' = "clustering_kmeans"
    /\ UNCHANGED nonKmVars

NextKMeans ==
    \/ KmAddPoint
    \/ KmRun

RECURSIVE SumPointCounts(_, _)
SumPointCounts(centroids, k) ==
    IF k = 0 THEN 0 ELSE centroids[k].point_count + SumPointCounts(centroids, k - 1)

\* C12: a result of clustering_kmeans with converged = true has point counts
\* that sum, over its k centroids, to the number of points of the data set.
C12_CountsSumToPoints ==
    (km_op = "clustering_kmeans" /\ km_result.converged) =>
        SumPointCounts(km_result.centroids, km_result.k) = Len(km_data)

\* A run over four points converged with three clusters in use after more
\* than one pass.
C12_Witness ==
    /\ km_op = "clustering_kmeans"
    /\ km_result.converged
    /\ km_result.k = 3
    /\ km_result.iterations >= 2
    /\ Len(km_data) = 4
    /\ \A j \in 1..3 : km_result.centroids[j].point_count >= 1

(***************************************************************************)
(* Streaming clustering: clustering_init_streaming, add_point, get, reset  *)
(***************************************************************************)

MaxStreamedPoints == 100   \* points added to the streaming data set per run

\* The k values given to clustering_init_streaming; 0 selects the default.
StreamedKs == {0, 2}

StreamIdleVars ==
    /\ st_returned = ZeroKMeansResult /\ st_last_rerun = <<>> /\ st_op = "none"

StreamInit ==
    /\ \E k \in StreamedKs : streaming' = clustering_init_streaming(k)
    /\ st_last_rerun' = <<>>
    /\ st_returned' = ZeroKMeansResult
    /\ st_op' = "clustering_init_streaming"
    /\ UNCHANGED infer_state
    /\ UNCHANGED nonStreamVars

StreamAddPoint ==
    /\ Len(streaming.dataset.points) < MaxStreamedPoints
    /\ \E point \in {DataPointAt(Len(streaming.dataset.points))} :
         \E s \in {clustering_add_point_streaming(streaming, point)} :
            /\ streaming' = s
            /\ st_last_rerun' = IF StreamingRecluster(streaming, point)
                                THEN <<s.result>> ELSE st_last_rerun
    /\ st_returned' = ZeroKMeansResult
    /\ st_op' = "clustering_add_point_streaming"
    /\ UNCHANGED infer_state
    /\ UNCHANGED nonStreamVars

StreamGetResult ==
    /\ st_returned' = clustering_get_streaming_result(streaming)
    /\ st_op' = "clustering_get_streaming_result"
    /\ UNCHANGED <<infer_state, streaming, st_last_rerun>>
    /\ UNCHANGED nonStreamVars

StreamReset ==
    /\ streaming' = clustering_reset_streaming(streaming)
    /\ st_returned' = ZeroKMeansResult
    /\ st_op' = "clustering_reset_streaming"
    /\ UNCHANGED <<infer_state, st_last_rerun>>
    /\ UNCHANGED nonStreamVars

NextStreaming ==
    \/ StreamInit
    \/ StreamAddPoint
    \/ StreamGetResult
    \/ StreamReset

\* The returned result is that of the latest k-means run since
\* clustering_init_streaming, when there has been one.
ReturnedIsLastRerun ==
    (st_op = "clustering_get_streaming_result" /\ st_last_rerun # <<>>) =>
        st_returned = st_last_rerun[1]

\* A step in which the count grows to a multiple of 50 leaves the result of
\* clustering_kmeans over the data set, with the k of the result before; any
\* other step but clustering_init_streaming leaves the result as it was.
RerunExactlyAtFifty ==
    LET n == Len(streaming.dataset.points)
        n1 == Len(streaming'.dataset.points)
    IN IF n1 = n + 1 /\ n1 % 50 = 0
       THEN streaming'.result =
                clustering_kmeans(
                    Append(streaming.dataset.points,
                           [streaming'.dataset.points[n1] EXCEPT !.cluster_id = 0]),
                    streaming.result.k).result
       ELSE st_op' # "clustering_init_streaming" => streaming'.result = streaming.result

\* C13: k-means is re-run exactly when the count of the streaming data set
\* becomes a multiple of 50, and the result returned is always that of the
\* latest completed re-run, whatever points were added or reset since.
C13_ResultIsLastRerun ==
    [](ReturnedIsLastRerun) /\ [][RerunExactlyAtFifty]_vars

\* The second re-run is returned after a reset and three more points.
C13_Witness ==
    /\ st_op = "clustering_get_streaming_result"
    /\ st_last_rerun # <<>>
    /\ st_returned = st_last_rerun[1]
    /\ st_returned.converged
    /\ SumPointCounts(st_returned.centroids, st_returned.k) = 100
    /\ Len(streaming.dataset.points) = 3

(***************************************************************************)
(* Threat assessment (threat_model.c).  The fields of analysis_context     *)
(* that the analyses write are held in threat_analysis; the payloads, the  *)
(* byte frequencies and the state stay in analysis_context.                *)
(***************************************************************************)
VULN_SCORE_CRITICAL == 900
VULN_SCORE_HIGH == 700
VULN_SCORE_MEDIUM == 400
VULN_SCORE_LOW == 200
RISK_LOW == 0
RISK_MEDIUM == 1
RISK_HIGH == 2
RISK_CRITICAL == 3
ENTROPY_HISTORY_SIZE == 100
THREAT_STATE_ANALYZING_CRC == "THREAT_STATE_ANALYZING_CRC"
THREAT_STATE_ASSESSING == "THREAT_STATE_ASSESSING"
THREAT_STATE_COMPLETE == "THREAT_STATE_COMPLETE"

\* crc_database as stored: polynomial is a uint16_t and initial a uint8_t, so
\* the initialisers 0xFFFF and 0x04C11DB7 are truncated.
crc_database ==
    <<[name |-> "CRC-8", polynomial |-> 7, width |-> 8, initial |-> 0],
      [name |-> "CRC-8-CCITT", polynomial |-> 7, width |-> 8, initial |-> 0],
      [name |-> "CRC-16", polynomial |-> 32773, width |-> 16, initial |-> 0],
      [name |-> "CRC-16-CCITT", polynomial |-> 4129, width |-> 16, initial |-> 255],
      [name |-> "CRC-16-IBM", polynomial |-> 32773, width |-> 16, initial |-> 0],
      [name |-> "CRC-32", polynomial |-> 7607, width |-> 32, initial |-> 255],
      [name |-> "CRC-32-MPEG", polynomial |-> 7607, width |-> 32, initial |-> 255]>>

NUM_CRC_POLYNOMIALS == Len(crc_database)

\* Byte j (from 0) of row i (from 1) of payloads: the rows are zeroed by
\* threat_model_start_analysis and filled up to the payload length.
PayloadByte(ctx, i, j) ==
    IF j < Len(ctx.payloads[i]) THEN ctx.payloads[i][j + 1] ELSE 0

\* One pass of the bit loop of threat_model_calculate_crc16 and of
\* threat_model_calculate_crc8.
Crc16Step(polynomial, crc) ==
    IF crc >= 32768 THEN Xor((crc * 2) % 65536, polynomial, 16) ELSE (crc * 2) % 65536

Crc8Step(polynomial, crc) ==
    IF crc >= 128 THEN Xor((crc * 2) % 256, polynomial, 8) ELSE (crc * 2) % 256

threat_model_calculate_crc16(data, len, polynomial, init) ==
    LET Shift(crc) == Crc16Step(polynomial, crc)
        Body(st) == [crc |-> Iterate(Shift, Xor(st.crc, data[st.i + 1] * 256, 16), 8),
                     i |-> st.i + 1]
    IN Iterate(Body, [crc |-> init, i |-> 0], len).crc

threat_model_calculate_crc8(data, len, polynomial, init) ==
    LET Shift(crc) == Crc8Step(polynomial, crc)
        Body(st) == [crc |-> Iterate(Shift, Xor(st.crc, data[st.i + 1], 8), 8),
                     i |-> st.i + 1]
    IN Iterate(Body, [crc |-> init, i |-> 0], len).crc

\* data is a row of payloads, given with its zero padding.
threat_model_test_crc(data, len, poly) ==
    IF poly.width = 8
    THEN threat_model_calculate_crc8(data, len, poly.polynomial % 256, poly.initial)
            = data[len + 1]
    ELSE IF poly.width = 16
    THEN LET Test(crc) == crc \div 256 = data[len + 1] /\ crc % 256 = data[len + 2]
         IN With(threat_model_calculate_crc16(data, len, poly.polynomial, poly.initial),
                 Test)
    ELSE FALSE

\* The crc_pos loop of threat_model_analyze_crc for one frame: positions
\* len - 2 down to len - 4, above 0.
FrameMatchesCrc(payload, poly) ==
    LET len == Len(payload)
        row == payload \o <<0, 0>>
    IN /\ len >= 3
       /\ \E crc_pos \in 1..(len - 2) :
             crc_pos >= len - 4 /\ threat_model_test_crc(row, crc_pos, poly)

\* The frames loop for polynomial p (from 1): match_count, a uint8_t.  The
\* test is evaluated once for each distinct payload.
CrcMatchCount(ctx, p) ==
    LET Count(matching) ==
            ToU8(Cardinality({i \in 1..Len(ctx.payloads) : ctx.payloads[i] \in matching}))
        Tested(st) ==
            LET payload == CHOOSE q \in st.todo : TRUE
            IN [todo |-> st.todo \ {payload},
                matching |-> IF FrameMatchesCrc(payload, crc_database[p])
                             THEN st.matching \cup {payload} ELSE st.matching]
        distinct == {ctx.payloads[i] : i \in 1..Len(ctx.payloads)}
    IN With(Iterate(Tested, [todo |-> distinct, matching |-> {}],
                    Cardinality(distinct)).matching,
            Count)

\* The polynomial loop: the first p whose matches exceed 80% of the frames,
\* or 0 when there is none.
RECURSIVE CrcSearch(_, _)
CrcSearch(ctx, p) ==
    IF p > NUM_CRC_POLYNOMIALS THEN 0
    ELSE IF CrcMatchCount(ctx, p) > (Len(ctx.payloads) * 8) \div 10 THEN p
    ELSE CrcSearch(ctx, p + 1)

\* threat_model_analyze_crc: the fields it writes (suspected_crc_type is the
\* index from 0).
threat_model_analyze_crc(ctx, an) ==
    IF Len(ctx.payloads) < 5 THEN an
    ELSE LET Found(p) ==
                 IF p = 0 THEN an
                 ELSE [an EXCEPT !.suspected_crc_type = p - 1,
                                 !.suspected_polynomial = crc_database[p].polynomial,
                                 !.crc_validated = TRUE]
         IN With(CrcSearch(ctx, 1), Found)

\* 1024 * log2(n) for an integer n >= 1, rounded down, by ten squarings of
\* the mantissa held with 14 fraction bits.
Log2Body(st) ==
    LET sq == (st.m * st.m) \div 16384
    IN IF sq >= 32768 THEN [m |-> sq \div 2, bits |-> 2 * st.bits + 1]
       ELSE [m |-> sq, bits |-> 2 * st.bits]

RECURSIVE FloorLog2(_)
FloorLog2(n) == IF n < 2 THEN 0 ELSE 1 + FloorLog2(n \div 2)

Log2Fixed(n) ==
    LET e == FloorLog2(n)
        m == IF e <= 14 THEN n * (2 ^ (14 - e)) ELSE n \div (2 ^ (e - 14))
    IN 1024 * e + Iterate(Log2Body, [m |-> m, bits |-> 0], 10).bits

\* Shannon entropy of the counts in frequencies out of total, in units of
\* 1/1024 bit.  The code sums probability * log2f(probability) in float; the
\* value here is within 1/256 bit of it.
EntropyFixed(frequencies, total) ==
    LET log_total == Log2Fixed(total)
        Body(st) ==
            LET f == frequencies[st.i + 1]
            IN [sum |-> IF f > 0 THEN st.sum + f * (log_total - Log2Fixed(f)) ELSE st.sum,
                i |-> st.i + 1]
    IN Iterate(Body, [sum |-> 0, i |-> 0], Len(frequencies)).sum \div total

\* threat_model_calculate_entropy: entropy_per_byte afterwards.
threat_model_calculate_entropy(ctx, an) ==
    IF ctx.total_bytes = 0 THEN an
    ELSE [an EXCEPT !.entropy_per_byte = EntropyFixed(ctx.byte_frequencies, ctx.total_bytes)]

\* threat_model_calculate_byte_entropy, in units of 1/1024 bit.
threat_model_calculate_byte_entropy(data, len) ==
    LET Count(b) == Cardinality({i \in 1..len : data[i] = b - 1})
    IN IF len = 0 THEN 0 ELSE EntropyFixed(ArrayOf(Count, 256), len)

ZeroThreatAssessment ==
    [level |-> RISK_LOW, entropy_bits |-> 0, has_checksum |-> FALSE,
     has_rolling_code |-> FALSE, is_static |-> FALSE, static_ratio |-> 0,
     vulnerability_score |-> 0, description |-> <<>>]

\* The analysis fields after the memset of threat_model_init and of
\* threat_model_start_analysis.  static_bit_mask is held as its 12 bytes and
\* detailed_report as <<>> (the empty string) or one record of the values
\* printed into it.
ZeroThreatAnalysis ==
    [entropy_per_byte |-> 0,
     static_bit_mask |-> <<0, 0, 0, 0, 0, 0, 0, 0, 0, 0, 0, 0>>,
     static_ratio |-> 0, fixed_preamble |-> 0, preamble_length |-> 0,
     suspected_crc_type |-> 0, suspected_polynomial |-> 0, crc_position |-> 0,
     crc_validated |-> FALSE,
     rolling_code_detected |-> FALSE, rolling_code_field_position |-> 0,
     rolling_code_field_length |-> 0, rolling_code_sequence |-> <<>>,
     exact_replay_detected |-> FALSE, replay_frame_indices |-> <<>>, replay_count |-> 0,
     assessment |-> ZeroThreatAssessment, detailed_report |-> <<>>]

\* sizeof(static_bit_mask): MAX_PAYLOAD_SIZE / 32 + 1 words of 4 bytes.
StaticMaskBytes == 4 * (MAX_PAYLOAD_SIZE \div 32 + 1)

Bit(x, b) == (x \div (2 ^ b)) % 2

\* Bitwise and of two w-bit values.
RECURSIVE BitAnd(_, _, _)
BitAnd(a, b, w) ==
    IF w = 0 THEN 0
    ELSE ((a % 2) * (b % 2)) + 2 * BitAnd(a \div 2, b \div 2, w - 1)

\* The byte of the mask for payload byte byte (from 0) after the frame loop
\* of threat_model_detect_static_patterns: a bit stays set when no frame
\* differs from the first one in it.
StaticMaskByte(ctx, byte) ==
    LET first == ctx.payloads[1][byte + 1]
        Same(b) == \A frame \in 2..Len(ctx.payloads) :
                      Bit(ctx.payloads[frame][byte + 1], b) = Bit(first, b)
        Body(st) == [mask |-> IF Same(st.b) THEN st.mask + 2 ^ st.b ELSE st.mask,
                     b |-> st.b + 1]
    IN IF \A frame \in 2..Len(ctx.payloads) : ctx.payloads[frame][byte + 1] = first
       THEN 255
       ELSE Iterate(Body, [mask |-> 0, b |-> 0], 8).mask

PopCount(x) ==
    Bit(x, 0) + Bit(x, 1) + Bit(x, 2) + Bit(x, 3) + Bit(x, 4) + Bit(x, 5) + Bit(x, 6)
        + Bit(x, 7)

MinPayloadLength(ctx) ==
    CHOOSE len \in {ctx.payload_lengths[i] : i \in 1..Len(ctx.payload_lengths)} :
        \A i \in 1..Len(ctx.payload_lengths) : len <= ctx.payload_lengths[i]

\* threat_model_detect_static_patterns.  Payload bytes from StaticMaskBytes
\* on index words past the end of static_bit_mask: beyond is the byte value
\* that memory holds before the frame loop clears bits in it.  The division
\* needs min_len > 0.
threat_model_detect_static_patterns(ctx, an, beyond) ==
    IF Len(ctx.payloads) < 2 THEN an
    ELSE LET min_len == MinPayloadLength(ctx)
             MaskAt(j) == IF j <= min_len THEN StaticMaskByte(ctx, j - 1) ELSE 255
             Ratio(mask) ==
                 LET Body(st) ==
                         LET static_byte ==
                                 IF st.i < StaticMaskBytes THEN mask[st.i + 1]
                                 ELSE BitAnd(beyond, StaticMaskByte(ctx, st.i), 8)
                         IN [static_bits |-> ToU16(st.static_bits + PopCount(static_byte)),
                             i |-> st.i + 1]
                     static_bits == Iterate(Body, [static_bits |-> 0, i |-> 0],
                                            min_len).static_bits
                     total_bits == ToU16(min_len * 8)
                 IN [an EXCEPT !.static_bit_mask = mask,
                               !.static_ratio = ToU8((static_bits * 100) \div total_bits)]
         IN With(ArrayOf(MaskAt, StaticMaskBytes), Ratio)

\* threat_model_detect_preamble: the longest prefix of up to 4 bytes that
\* all rows share with the first one; fixed_preamble is a uint16_t.
threat_model_detect_preamble(ctx, an) ==
    IF Len(ctx.payloads) < 2 THEN an
    ELSE LET Match(len) ==
                 \A i \in 2..Len(ctx.payloads) :
                    \A j \in 0..(len - 1) : PayloadByte(ctx, 1, j) = PayloadByte(ctx, i, j)
             Body(st) ==
                 IF st.open /\ Match(st.len + 1)
                 THEN [an |-> [st.an EXCEPT
                                 !.preamble_length = st.len + 1,
                                 !.fixed_preamble =
                                     IF st.len = 0 THEN PayloadByte(ctx, 1, 0)
                                     ELSE ToU16(PayloadByte(ctx, 1, st.len - 1) * 256
                                                  + PayloadByte(ctx, 1, st.len))],
                       len |-> st.len + 1, open |-> TRUE]
                 ELSE [st EXCEPT !.open = FALSE]
         IN Iterate(Body, [an |-> an, len |-> 0, open |-> TRUE], 4).an

\* A uint32_t of the rolling-code analysis, held as <<high half, low half>>.
U32FromBytes(b0, b1, b2, b3) == <<b0 * 256 + b1, b2 * 256 + b3>>

U32Inc(v) == IF v[2] = 65535 THEN <<(v[1] + 1) % 65536, 0>> ELSE <<v[1], v[2] + 1>>

U32Dec(v) == IF v[2] = 0 THEN <<(v[1] + 65535) % 65536, 65535>> ELSE <<v[1], v[2] - 1>>

\* The values[] that threat_model_detect_rolling_code collects at byte_pos.
RollingValues(ctx, byte_pos) ==
    LET Body(st) ==
            LET i == st.i + 1
            IN [values |-> IF byte_pos + 4 <= ctx.payload_lengths[i]
                           THEN Append(st.values,
                                       U32FromBytes(ctx.payloads[i][byte_pos + 1],
                                                    ctx.payloads[i][byte_pos + 2],
                                                    ctx.payloads[i][byte_pos + 3],
                                                    ctx.payloads[i][byte_pos + 4]))
                           ELSE st.values,
                i |-> i]
    IN Iterate(Body, [values |-> <<>>, i |-> 0],
               Min(Len(ctx.payloads), ENTROPY_HISTORY_SIZE)).values

\* sequence[i] of the code is sequence[i + 1] here.
threat_model_analyze_sequence_randomness(sequence, len) ==
    ~ \E period \in 1..(len \div 2) :
          \A i \in period..(len - 1) : sequence[i + 1] = sequence[(i % period) + 1]

SequentialValues(values) ==
    \A i \in 2..Len(values) :
        \/ values[i] = U32Inc(values[i - 1])
        \/ values[i] = U32Dec(values[i - 1])
        \/ values[i] = values[i - 1]

\* One pass of the byte_pos loop of threat_model_detect_rolling_code:
\* st = [an, byte_pos, found].
RollingCodeBody(ctx, st) ==
    LET Decide(values) ==
            IF /\ Len(values) >= 10
               /\ ~SequentialValues(values)
               /\ threat_model_analyze_sequence_randomness(values, Len(values))
            THEN [an |-> [st.an EXCEPT !.rolling_code_detected = TRUE,
                                       !.rolling_code_field_position = st.byte_pos,
                                       !.rolling_code_field_length = 4,
                                       !.rolling_code_sequence = values],
                  byte_pos |-> st.byte_pos, found |-> TRUE]
            ELSE [st EXCEPT !.byte_pos = @ + 1]
    IN IF st.found THEN st ELSE With(RollingValues(ctx, st.byte_pos), Decide)

threat_model_detect_rolling_code(ctx, an) ==
    IF Len(ctx.payloads) < ENTROPY_HISTORY_SIZE THEN an
    ELSE LET Body(st) == RollingCodeBody(ctx, st)
         IN Iterate(Body, [an |-> an, byte_pos |-> 0, found |-> FALSE],
                    ctx.payload_lengths[1]).an

\* One pass of the outer loop of threat_model_detect_replay_vulnerability:
\* frame i (from 0) is recorded once for each later frame equal to it, up to
\* 10 records in all.
ReplayBody(ctx, st) ==
    LET later == Cardinality({j \in (st.i + 2)..Len(ctx.payloads) :
                                 ctx.payloads[j] = ctx.payloads[st.i + 1]})
        Record(s) == IF Len(s) < 10 THEN Append(s, st.i) ELSE s
    IN [detected |-> st.detected \/ later > 0,
        indices |-> IF Len(st.indices) >= 10 THEN st.indices
                    ELSE Iterate(Record, st.indices, Min(later, 10)),
        i |-> st.i + 1]

threat_model_detect_replay_vulnerability(ctx, an) ==
    LET Body(st) == ReplayBody(ctx, st)
        Store(st) == [an EXCEPT !.exact_replay_detected = st.detected,
                                !.replay_frame_indices = st.indices,
                                !.replay_count = Len(st.indices)]
    IN With(Iterate(Body, [detected |-> FALSE, indices |-> <<>>, i |-> 0],
                    Len(ctx.payloads)),
            Store)

\* entropy_per_byte is in units of 1/1024 bit: 4.0f is 4096.
threat_model_calculate_vulnerability_score(an) ==
    LET low_entropy == IF an.entropy_per_byte < 4096
                       THEN ((4096 - an.entropy_per_byte) * 75) \div 1024 ELSE 0
        static == (an.static_ratio * 250) \div 100
        no_crc == IF ~an.crc_validated THEN 200 ELSE 0
        no_rolling == IF ~an.rolling_code_detected THEN 150 ELSE 0
        replay == IF an.exact_replay_detected THEN 100 ELSE 0
        score == ToU16(low_entropy + static + no_crc + no_rolling + replay)
    IN IF score > 1000 THEN 1000 ELSE score

\* The ladder of threat_model_calculate_risk_level with the tests for High
\* and Medium exchanged.
RiskLevelOfScoreSwapped(score) ==
    IF score >= VULN_SCORE_CRITICAL THEN RISK_CRITICAL
    ELSE IF score >= VULN_SCORE_MEDIUM THEN RISK_MEDIUM
    ELSE IF score >= VULN_SCORE_HIGH THEN RISK_HIGH
    ELSE RISK_LOW

\* The ladder of threat_model_calculate_risk_level.
RiskLevelOfScore(score) ==
    IF score >= VULN_SCORE_CRITICAL THEN RISK_CRITICAL
    ELSE IF score >= VULN_SCORE_HIGH THEN RISK_HIGH
    ELSE IF score >= VULN_SCORE_MEDIUM THEN RISK_MEDIUM
    ELSE IF score >= VULN_SCORE_LOW THEN RISK_LOW
    ELSE RISK_LOW

threat_model_calculate_risk_level(an) ==
    RiskLevelOfScore(threat_model_calculate_vulnerability_score(an))

threat_model_get_risk_string(risk) ==
    CASE risk = RISK_LOW -> "LOW"
      [] risk = RISK_MEDIUM -> "MEDIUM"
      [] risk = RISK_HIGH -> "HIGH"
      [] risk = RISK_CRITICAL -> "CRITICAL"
      [] OTHER -> "UNKNOWN"

\* threat_model_generate_report: the values printed into detailed_report.
threat_model_generate_report(an) ==
    [an EXCEPT !.detailed_report =
        <<[risk_level |-> threat_model_get_risk_string(an.assessment.level),
           vulnerability_score |-> an.assessment.vulnerability_score,
           entropy_per_byte |-> an.entropy_per_byte,
           entropy_bits |-> an.assessment.entropy_bits,
           static_ratio |-> an.static_ratio,
           preamble_length |-> an.preamble_length,
           fixed_preamble |-> an.fixed_preamble,
           crc |-> an.crc_validated,
           rolling_code |-> an.rolling_code_detected,
           replay_vulnerable |-> an.exact_replay_detected]>>]

\* Lines 630-640 of threat_model_assess_vulnerabilities.
AssessmentOf(an) ==
    [an EXCEPT !.assessment.level = threat_model_calculate_risk_level(an),
               !.assessment.vulnerability_score =
                   threat_model_calculate_vulnerability_score(an),
               !.assessment.entropy_bits = ToU8((an.entropy_per_byte * 8) \div 1024),
               !.assessment.has_checksum = an.crc_validated,
               !.assessment.has_rolling_code = an.rolling_code_detected,
               !.assessment.is_static = (an.static_ratio > 80),
               !.assessment.static_ratio = an.static_ratio]

\* threat_model_assess_vulnerabilities: the analysis fields afterwards (the
\* state is left at THREAT_STATE_COMPLETE).
threat_model_assess_vulnerabilities(ctx, an, beyond) ==
    LET Replay(a) == threat_model_detect_replay_vulnerability(ctx, a)
        Rolling(a) == With(threat_model_detect_rolling_code(ctx, a), Replay)
        Crc(a) == With(threat_model_analyze_crc(ctx, a), Rolling)
        Preamble(a) == With(threat_model_detect_preamble(ctx, a), Crc)
        Static(a) == With(threat_model_detect_static_patterns(ctx, a, beyond), Preamble)
        Report(a) == threat_model_generate_report(a)
        Assess(a) == With(AssessmentOf(a), Report)
    IN With(With(threat_model_calculate_entropy(ctx, an), Static), Assess)

threat_model_get_report(an) == an.detailed_report

\* threat_model_quick_assess.  The conversion of entropy * length to uint8_t
\* is undefined above 255: cast says whether it saturates or wraps.
threat_model_quick_assess(frame, cast) ==
    LET Result(entropy) ==
            LET product == (entropy * frame.length) \div 1024
                all_same == \A i \in 1..(frame.length - 1) : frame.data[i + 1] = frame.data[1]
            IN [ZeroThreatAssessment EXCEPT
                  !.entropy_bits = IF product <= 255 THEN product
                                   ELSE IF cast = "saturate" THEN 255
                                   ELSE product % 256,
                  !.is_static = all_same,
                  !.static_ratio = IF all_same THEN 100 ELSE 0,
                  !.level = IF entropy < 2048 \/ all_same THEN RISK_HIGH
                            ELSE IF entropy < 4096 THEN RISK_MEDIUM
                            ELSE RISK_LOW,
                  !.vulnerability_score = IF entropy < 2048 \/ all_same THEN 700
                                          ELSE IF entropy < 4096 THEN 400
                                          ELSE 200]
    IN With(threat_model_calculate_byte_entropy(frame.data, frame.length), Result)

(***************************************************************************)
(* Threat assessment harness.  A collection receives one stream of frames; *)
(* it is assessed, stopped and queried at the counts of AssessAt, and the  *)
(* context as constructed is assessed as well.                             *)
(***************************************************************************)

ThreatStreams == {"short", "long", "rolling", "crc"}

\* Frame n of a stream: "short" and "long" repeat one frame of 3 and of 64
\* bytes, "rolling" changes every byte but the last, and "crc" carries the
\* CRC-8 of its first byte.
StreamPayload(s, n) ==
    CASE s = "short" -> <<165, 90, 60>>
      [] s = "long" -> LET At(j) == (7 * j + 1) % 256 IN ArrayOf(At, MAX_PAYLOAD_SIZE)
      [] s = "rolling" -> <<(37 * n) % 256, (91 * n + 5) % 256, n % 256, 119>>
      [] OTHER -> <<n % 256, threat_model_calculate_crc8(<<n % 256>>, 1, 7, 0), 66>>

StreamFrame(s, n) ==
    [data |-> FrameData(StreamPayload(s, n)), length |-> Len(StreamPayload(s, n))]

AssessAt == {0, 1, 2, 5, 100, 256}

\* Frames given to threat_model_quick_assess: the first frame of each
\* stream, a frame of one repeated byte and an empty one.
QuickFrames ==
    {StreamFrame(s, 0) : s \in ThreatStreams}
        \cup {[data |-> FrameData(<<170, 170, 170, 170>>), length |-> 4],
              [data |-> FrameData(<<1, 2, 3, 4, 5, 6, 7, 8>>), length |-> 8],
              [data |-> FrameData(<<>>), length |-> 0]}

\* What the memory past static_bit_mask may hold: zero as the memset left it,
\* or all ones.
BeyondMask == {0, 255}

\* That memory is read only for payload bytes from StaticMaskBytes on.
BeyondChoices(ctx) ==
    IF Len(ctx.payloads) >= 2 /\ MinPayloadLength(ctx) > StaticMaskBytes
    THEN BeyondMask ELSE {0}

ThreatVarsIdle ==
    /\ threat_analysis = ZeroThreatAnalysis
    /\ quick_result = ZeroThreatAssessment
    /\ th_stream = "none" /\ th_report = <<>> /\ th_op = "none"

ThreatStart ==
    /\ \E s \in ThreatStreams : th_stream' = s
    /\ analysis_context' = threat_model_start_analysis
    /\ threat_analysis' = ZeroThreatAnalysis
    /\ quick_result' = ZeroThreatAssessment
    /\ th_report' = <<>>
    /\ th_op' = "threat_model_start_analysis"
    /\ UNCHANGED <<threat_model_initialized, ing_op, ing_entry_count>>
    /\ UNCHANGED nonThreatVars

ThreatFrame ==
    /\ analysis_context.state = THREAT_STATE_COLLECTING
    /\ analysis_context' =
           threat_model_add_frame(analysis_context,
                                  StreamFrame(th_stream, Len(analysis_context.payloads)))
    /\ quick_result' = ZeroThreatAssessment
    /\ th_report' = <<>>
    /\ th_op' = "threat_model_add_frame"
    /\ UNCHANGED <<threat_analysis, th_stream>>
    /\ UNCHANGED <<threat_model_initialized, ing_op, ing_entry_count>>
    /\ UNCHANGED nonThreatVars

ThreatAssess ==
    /\ \/ analysis_context.state = THREAT_STATE_COLLECTING
       \/ analysis_context = ZeroThreatContext
    /\ Len(analysis_context.payloads) \in AssessAt
    /\ \E beyond \in BeyondChoices(analysis_context) :
         \E an \in {threat_model_assess_vulnerabilities(analysis_context,
                                                        threat_analysis, beyond)} :
            threat_analysis' = an
    /\ analysis_context' = [analysis_context EXCEPT !.state = THREAT_STATE_COMPLETE]
    /\ quick_result' = ZeroThreatAssessment
    /\ th_report' = <<>>
    /\ th_op' = "threat_model_assess_vulnerabilities"
    /\ UNCHANGED th_stream
    /\ UNCHANGED <<threat_model_initialized, ing_op, ing_entry_count>>
    /\ UNCHANGED nonThreatVars

ThreatStop ==
    /\ Len(analysis_context.payloads) \in AssessAt
    /\ analysis_context' = threat_model_stop_analysis(analysis_context)
    /\ quick_result' = ZeroThreatAssessment
    /\ th_report' = <<>>
    /\ th_op' = "threat_model_stop_analysis"
    /\ UNCHANGED <<threat_analysis, th_stream>>
    /\ UNCHANGED <<threat_model_initialized, ing_op, ing_entry_count>>
    /\ UNCHANGED nonThreatVars

ThreatGetReport ==
    /\ Len(analysis_context.payloads) \in AssessAt
    /\ th_report' = threat_model_get_report(threat_analysis)
    /\ quick_result' = ZeroThreatAssessment
    /\ th_op' = "threat_model_get_report"
    /\ UNCHANGED <<analysis_context, threat_analysis, th_stream>>
    /\ UNCHANGED <<threat_model_initialized, ing_op, ing_entry_count>>
    /\ UNCHANGED nonThreatVars

ThreatQuickAssess ==
    /\ Len(analysis_context.payloads) <= 1
    /\ \E frame \in QuickFrames, cast \in {"saturate", "wrap"} :
           quick_result' = threat_model_quick_assess(frame, cast)
    /\ th_report' = <<>>
    /\ th_op' = "threat_model_quick_assess"
    /\ UNCHANGED <<analysis_context, threat_analysis, th_stream>>
    /\ UNCHANGED <<threat_model_initialized, ing_op, ing_entry_count>>
    /\ UNCHANGED nonThreatVars

NextThreat ==
    \/ ThreatStart
    \/ ThreatFrame
    \/ ThreatAssess
    \/ ThreatStop
    \/ ThreatGetReport
    \/ ThreatQuickAssess

\* The band of a score: Critical from 900, High from 700, Medium from 400,
\* Low below.
ScoreBand(score) ==
    IF score >= 900 THEN RISK_CRITICAL
    ELSE IF score >= 700 THEN RISK_HIGH
    ELSE IF score >= 400 THEN RISK_MEDIUM
    ELSE RISK_LOW

InBand(assessment) ==
    /\ assessment.vulnerability_score \in 0..1000
    /\ assessment.level = ScoreBand(assessment.vulnerability_score)

\* C14: every assessment produced, by threat_model_assess_vulnerabilities or
\* by threat_model_quick_assess, has a vulnerability_score in 0..1000 and the
\* level of the band of that score.
C14_ScoreInBand ==
    /\ th_op = "threat_model_assess_vulnerabilities" => InBand(threat_analysis.assessment)
    /\ th_op = "threat_model_quick_assess" => InBand(quick_result)

\* A full assessment of five frames scored High.
C14_Witness ==
    /\ th_op = "threat_model_assess_vulnerabilities"
    /\ Len(analysis_context.payloads) = 5
    /\ threat_analysis.assessment.level = RISK_HIGH
    /\ threat_analysis.assessment.vulnerability_score \in 700..899

NoTableCrc(payload) ==
    \A p \in 1..NUM_CRC_POLYNOMIALS : ~FrameMatchesCrc(payload, crc_database[p])

IdenticalFrames(ctx) ==
    \A i \in 1..Len(ctx.payloads) : ctx.payloads[i] = ctx.payloads[1]

\* C15: the assessment of 256 identical frames that satisfy no CRC of the
\* table, received after threat_model_start_analysis, has low entropy,
\* static_ratio 100, no checksum, and level Critical with a score of 900 or
\* more.
C15_IdenticalFramesCritical ==
    (/\ th_op = "threat_model_assess_vulnerabilities"
     /\ Len(analysis_context.payloads) = THREAT_MAX_FRAME_SAMPLES
     /\ IdenticalFrames(analysis_context)
     /\ NoTableCrc(analysis_context.payloads[1]))
    => /\ threat_analysis.entropy_per_byte < 4096
       /\ threat_analysis.assessment.static_ratio = 100
       /\ ~threat_analysis.assessment.has_checksum
       /\ threat_analysis.assessment.level = RISK_CRITICAL
       /\ threat_analysis.assessment.vulnerability_score >= 900

\* C16: a report queried while the threat model is idle (never started, or
\* stopped) is empty, with nothing left over from an earlier assessment.
C16_IdleReportEmpty ==
    (th_op = "threat_model_get_report" /\ analysis_context.state = THREAT_STATE_IDLE)
        => th_report = <<>>

\* The number of collected frames that verify against polynomial p (from 1),
\* the test being evaluated once for each distinct payload.
VerifyingFrames(ctx, p) ==
    LET distinct == {ctx.payloads[i] : i \in 1..Len(ctx.payloads)}
        matching == {q \in distinct : FrameMatchesCrc(q, crc_database[p])}
    IN Cardinality({i \in 1..Len(ctx.payloads) : ctx.payloads[i] \in matching})

\* Strictly more than 80% of the frames verify against p.
MostFramesVerify(ctx, p) == 10 * VerifyingFrames(ctx, p) > 8 * Len(ctx.payloads)

\* The recorded position is one at which a collected frame verifies.
RecordedPositionVerifies(ctx, an) ==
    \E i \in 1..Len(ctx.payloads) :
        /\ an.crc_position >= 1
        /\ an.crc_position <= Len(ctx.payloads[i]) - 2
        /\ threat_model_test_crc(ctx.payloads[i] \o <<0, 0>>, an.crc_position,
                                 crc_database[an.suspected_crc_type + 1])

\* C23 (as stated): over the collected frames (up to 256), a CRC is declared
\* found if and only if strictly more than 80% of the frames verify against
\* some polynomial of the table, and then the polynomial and the CRC position
\* are both recorded.
C23_CrcFoundIffMostVerify ==
    th_op = "threat_model_assess_vulnerabilities" =>
        /\ threat_analysis.crc_validated <=>
               \E p \in 1..NUM_CRC_POLYNOMIALS : MostFramesVerify(analysis_context, p)
        /\ threat_analysis.crc_validated =>
               /\ MostFramesVerify(analysis_context, threat_analysis.suspected_crc_type + 1)
               /\ threat_analysis.suspected_polynomial =
                      crc_database[threat_analysis.suspected_crc_type + 1].polynomial
               /\ RecordedPositionVerifies(analysis_context, threat_analysis)

RECURSIVE IdenticalBits(_, _)
\* The number of bit positions within the first n bytes whose value is the
\* same in every collected frame.
IdenticalBits(ctx, n) ==
    IF n = 0 THEN 0
    ELSE PopCount(StaticMaskByte(ctx, n - 1)) + IdenticalBits(ctx, n - 1)

\* C24 (as stated): after static-pattern detection over two or more frames of
\* up to 64 bytes, the mask has a bit set exactly for the bit positions,
\* within the first min(payload_length) bytes, whose value is identical in
\* every frame, and static_ratio is 100 * (number of such bits) /
\* (8 * min payload length).
C24_StaticMaskExact ==
    (/\ th_op = "threat_model_assess_vulnerabilities"
     /\ Len(analysis_context.payloads) >= 2
     /\ MinPayloadLength(analysis_context) >= 1) =>
        LET min_len == MinPayloadLength(analysis_context)
        IN /\ \A byte \in 0..(min_len - 1) :
                  /\ byte < StaticMaskBytes
                  /\ threat_analysis.static_bit_mask[byte + 1] =
                         StaticMaskByte(analysis_context, byte)
           /\ threat_analysis.static_ratio =
                  (100 * IdenticalBits(analysis_context, min_len)) \div (8 * min_len)

(***************************************************************************)
(* core/math/statistics.c                                                  *)
(***************************************************************************)
HISTOGRAM_MAX_BINS == 256

\* int32_t subtraction a - b in two's complement.
SubI32(a, b) ==
    IF b = FIXED_MIN THEN AddI32(AddI32(a, FIXED_MAX), 1) ELSE AddI32(a, -b)

\* a / n in C for a fixed_t a and a uint32_t n: the usual arithmetic
\* conversions turn a into a uint32_t, so a negative a is divided as
\* a + 2^32, and the quotient is converted back to fixed_t.  n is in
\* 1..32767 here; the dividend is split into 16-bit halves.
UDivFixedByU32(a, n) ==
    IF a >= 0 THEN a \div n
    ELSE LET hi == (a \div 65536) + 65536
             lo == a % 65536
             q_hi == hi \div n
             q_lo == ((hi % n) * 65536 + lo) \div n
         IN ToI32(q_hi, q_lo)

welford_init ==
    [n |-> 0, mean |-> 0, m2 |-> 0, min_val |-> FIXED_MAX, max_val |-> FIXED_MIN,
     variance |-> 0, std_dev |-> 0]

welford_add_sample(state, x) ==
    LET n == state.n + 1
        delta == SubI32(x, state.mean)
        mean == AddI32(state.mean, UDivFixedByU32(delta, n))
        delta2 == SubI32(x, mean)
    IN [state EXCEPT !.n = n,
                     !.min_val = IF x < state.min_val THEN x ELSE state.min_val,
                     !.max_val = IF x > state.max_val THEN x ELSE state.max_val,
                     !.mean = mean,
                     !.m2 = AddI32(state.m2, fixed_mul(delta, delta2))]

welford_get_mean(state) == state.mean

welford_get_variance(state) ==
    IF state.n < 2 THEN 0 ELSE UDivFixedByU32(state.m2, state.n - 1)

RECURSIVE SumFixed(_, _)
\* sum += data[i] over the first n elements
SumFixed(data, n) ==
    IF n = 0 THEN 0 ELSE AddI32(SumFixed(data, n - 1), data[n])

stats_mean(data) ==
    IF Len(data) = 0 THEN 0 ELSE UDivFixedByU32(SumFixed(data, Len(data)), Len(data))

RECURSIVE SumSquaredDiffs(_, _, _)
\* sum_sq += fixed_mul(diff, diff) over the first n elements
SumSquaredDiffs(data, mean, n) ==
    IF n = 0 THEN 0
    ELSE LET diff == SubI32(data[n], mean)
         IN AddI32(SumSquaredDiffs(data, mean, n - 1), fixed_mul(diff, diff))

stats_variance(data) ==
    IF Len(data) < 2 THEN 0
    ELSE UDivFixedByU32(SumSquaredDiffs(data, stats_mean(data), Len(data)),
                        Len(data) - 1)

\* Histogram_t; bins holds the first num_bins counters (the counters past
\* num_bins are never written and stay 0).
histogram_init(num_bins, min_val, max_val) ==
    LET nb == IF num_bins < HISTOGRAM_MAX_BINS THEN num_bins ELSE HISTOGRAM_MAX_BINS
        width == TruncDiv(max_val - min_val, nb)
    IN [bins |-> [i \in 1..nb |-> 0], num_bins |-> nb,
        min_val |-> min_val, max_val |-> max_val,
        bin_width |-> IF width = 0 THEN FIXED_ONE ELSE width,
        total_samples |-> 0, peak_bin |-> 0, peak_count |-> 0]

histogram_add(h, value) ==
    IF value < h.min_val \/ value > h.max_val THEN h
    ELSE LET raw == ToU16(TruncDiv(value - h.min_val, h.bin_width))
             bin == IF raw >= h.num_bins THEN h.num_bins - 1 ELSE raw
             count == ToU16(h.bins[bin + 1] + 1)
         IN [h EXCEPT !.bins[bin + 1] = count,
                      !.total_samples = h.total_samples + 1,
                      !.peak_count = IF count > h.peak_count THEN count ELSE h.peak_count,
                      !.peak_bin = IF count > h.peak_count THEN bin ELSE h.peak_bin]

\* bins[i] * FIXED_SCALE is an int product, defined while bins[i] < 32768;
\* the quotient by total_samples is stored into a uint16_t.
histogram_normalize(h) ==
    IF h.total_samples = 0 THEN h
    ELSE [h EXCEPT !.bins = [i \in 1..h.num_bins |->
                                 ToU16((h.bins[i] * FIXED_ONE) \div h.total_samples)]]

RECURSIVE SumBins(_, _)
SumBins(bins, n) == IF n = 0 THEN 0 ELSE SumBins(bins, n - 1) + bins[n]

(***************************************************************************)
(* Statistics harnesses: samples into one Welford state; values into one   *)
(* histogram; fixed_mul by FIXED_ONE.                                      *)
(***************************************************************************)
MaxSamples == 4           \* samples added to one Welford state
MaxHistSamples == 5       \* in-range values added to one histogram
\* Samples are multiples of 2^-8, so that exact sums of squares stay small.
WelfordSamples == {FIXED_ONE, 2 * FIXED_ONE, 3 * FIXED_ONE + 256}
HistConfigs == {<<4, 0, 4 * FIXED_ONE>>, <<1, FIXED_ONE, 2 * FIXED_ONE>>}
HistValues == {-1, FIXED_ONE, FIXED_ONE + 5, 3 * FIXED_ONE, 4 * FIXED_ONE, 5 * FIXED_ONE}
MaxSmallFixed == 64       \* largest magnitude of the exhaustively enumerated values
FixedValues ==
    (-MaxSmallFixed..MaxSmallFixed)
        \cup {FIXED_ONE, -FIXED_ONE, 98304, -98304, 32768, -32768, 32767, -32767,
              FIXED_MAX, -FIXED_MAX, FIXED_MIN}

StatIdle ==
    /\ welford = welford_init /\ wf_samples = <<>>
    /\ hist = histogram_init(4, 0, 4 * FIXED_ONE)
    /\ fm_a = 0 /\ fm_result = 0
    /\ stat_op = "none"

WelfordInit ==
    /\ wf_samples # <<>>
    /\ welford' = welford_init
    /\ wf_samples' = <<>>
    /\ stat_op' = "welford_init"
    /\ UNCHANGED <<hist, fm_a, fm_result>>
    /\ UNCHANGED nonStatVars

WelfordAddSample ==
    /\ Len(wf_samples) < MaxSamples
    /\ \E x \in WelfordSamples :
           /\ \E r \in {welford_add_sample(welford, x)} : welford' = r
           /\ wf_samples' = Append(wf_samples, x)
    /\ stat_op' = "welford_add_sample"
    /\ UNCHANGED <<hist, fm_a, fm_result>>
    /\ UNCHANGED nonStatVars

HistogramInit ==
    /\ hist.total_samples > 0
    /\ \E cfg \in HistConfigs : hist' = histogram_init(cfg[1], cfg[2], cfg[3])
    /\ stat_op' = "histogram_init"
    /\ UNCHANGED <<welford, wf_samples, fm_a, fm_result>>
    /\ UNCHANGED nonStatVars

HistogramAdd ==
    /\ hist.total_samples < MaxHistSamples
    /\ \E v \in HistValues : hist' = histogram_add(hist, v)
    /\ stat_op' = "histogram_add"
    /\ UNCHANGED <<welford, wf_samples, fm_a, fm_result>>
    /\ UNCHANGED nonStatVars

HistogramNormalize ==
    /\ \A i \in 1..hist.num_bins : hist.bins[i] < 32768
    /\ hist' = histogram_normalize(hist)
    /\ stat_op' = "histogram_normalize"
    /\ UNCHANGED <<welford, wf_samples, fm_a, fm_result>>
    /\ UNCHANGED nonStatVars

FixedMulByOne ==
    /\ \E a \in FixedValues :
           /\ fm_a' = a
           /\ fm_result' = fixed_mul(a, FIXED_ONE)
    /\ stat_op' = "fixed_mul"
    /\ UNCHANGED <<welford, wf_samples, hist>>
    /\ UNCHANGED nonStatVars

NextWelford == WelfordInit \/ WelfordAddSample
NextHistogram == HistogramInit \/ HistogramAdd \/ HistogramNormalize
NextFixedMul == FixedMulByOne

(***************************************************************************)
(* Statistics properties                                                   *)
(***************************************************************************)
\* v is within one unit of the rational num / den (den > 0)
WithinOne(v, num, den) ==
    /\ v <= (num \div den) + 1
    /\ v >= (-((-num) \div den)) - 1

RECURSIVE SumUnits(_, _)
\* the sum of the samples in units of 2^-8
SumUnits(data, n) == IF n = 0 THEN 0 ELSE SumUnits(data, n - 1) + data[n] \div 256

RECURSIVE SumSquareUnits(_, _)
SumSquareUnits(data, n) ==
    IF n = 0 THEN 0
    ELSE SumSquareUnits(data, n - 1) + (data[n] \div 256) * (data[n] \div 256)

\* the exact mean sum(x) / n against the reported one
MeanIsExact(state, data) ==
    WithinOne(welford_get_mean(state), 256 * SumUnits(data, Len(data)), Len(data))

\* the exact variance sum((x - mean)^2) / (n - 1) in Q15.16 units, which is
\* (n * sum(a^2) - sum(a)^2) / (n * (n - 1)) for samples x = a * 2^-8
VarianceIsExact(state, data) ==
    LET n == Len(data)
        s == SumUnits(data, n)
    IN WithinOne(welford_get_variance(state),
                 n * SumSquareUnits(data, n) - s * s, n * (n - 1))

\* C17 (as stated): after n >= 1 calls to welford_add_sample on a freshly
\* initialised state the reported mean is within one unit of the exact mean
\* and, for n >= 2, the reported variance within one unit of the exact sample
\* variance; both agree with stats_mean and stats_variance of the samples.
C17_WelfordMatchesBatch ==
    Len(wf_samples) >= 1 =>
        /\ welford.n = Len(wf_samples)
        /\ MeanIsExact(welford, wf_samples)
        /\ Len(wf_samples) >= 2 => VarianceIsExact(welford, wf_samples)
        /\ welford_get_mean(welford) = stats_mean(wf_samples)
        /\ welford_get_variance(welford) = stats_variance(wf_samples)

\* C18 (as stated): after histogram_init and any sequence of histogram_add
\* (in range or out of range) and histogram_normalize calls, bins[peak_bin]
\* equals peak_count and the bins sum to total_samples.
C18_HistogramConsistent ==
    /\ hist.bins[hist.peak_bin + 1] = hist.peak_count
    /\ SumBins(hist.bins, hist.num_bins) = hist.total_samples

\* C19 (as stated): fixed_mul(a, FIXED_ONE) returns exactly a, for positive,
\* zero and negative a.
C19_MulByOneIsIdentity == stat_op = "fixed_mul" => fm_result = fm_a

(***************************************************************************)
(* Temporal record harness: one device of the table, matched many times.   *)
(***************************************************************************)
MaxRingMatches == 257     \* matches with confidence >= Low for the device

RingDevice == Fp(1000, 3, 68)
\* The query of the n-th match: each differs from the ten before it, and all
\* are within FINGERPRINT_CONFIDENCE_LOW of RingDevice.
QueryAt(n) == Fp(1000 + n, 3, 68)
\* A query that matches no entry.
FarQuery == Fp(41000, 3, 68)

RingIdle == tr_matched = <<>> /\ tr_owner = <<>>

RingAddDevice ==
    /\ device_database = <<>>
    /\ device_database' = fingerprinting_add_to_database(device_database, RingDevice, "gate")
    /\ db_op' = "add_to_database"
    /\ UNCHANGED <<temporal_records, m_query, m_id_in, m_id_out, m_confidence, m_matched>>
    /\ UNCHANGED ringVars
    /\ UNCHANGED nonRingVars

RingMatch ==
    /\ Len(tr_matched) < MaxRingMatches
    /\ \E f \in {QueryAt(Len(tr_matched) + 1), FarQuery}, id_in \in MatchIdInputs :
         \E r \in {fingerprinting_match_device(device_database, temporal_records,
                                               f, id_in, ZeroFingerprint)} :
            /\ m_query' = f
            /\ m_id_in' = id_in
            /\ m_id_out' = r.matched_device_id
            /\ m_matched' = r.matched_fingerprint
            /\ m_confidence' = r.confidence
            /\ temporal_records' = r.temporal
            /\ tr_matched' = IF r.confidence >= FINGERPRINT_CONFIDENCE_LOW
                             THEN Append(tr_matched, f) ELSE tr_matched
    /\ db_op' = "match_device"
    /\ UNCHANGED <<device_database, tr_owner>>
    /\ UNCHANGED nonRingVars

NextRing == RingAddDevice \/ RingMatch

\* The fingerprints in the first m slots of a record's history ring.
RingContents(record, m) == { record.history[i] : i \in 1..m }
\* The last m matched fingerprints.
LastMatched(m) == { tr_matched[j] : j \in (Len(tr_matched) - m + 1)..Len(tr_matched) }

\* C22 (as stated): after n matches with confidence >= Low for a device, the
\* history ring of its temporal record holds exactly the min(n, 10) most
\* recently matched fingerprints, each new one having replaced the oldest.
C22_RingHoldsLastTen ==
    Len(tr_matched) >= 1 =>
        /\ Len(temporal_records) = 1
        /\ LET m == Min(Len(tr_matched), 10)
           IN RingContents(temporal_records[1], m) = LastMatched(m)

(***************************************************************************)
(* Temporal record harness: devices added, matched and removed.            *)
(***************************************************************************)
MaxTemporalDevices == 2   \* entries of the device table
MaxTemporalMatches == 3   \* matches recorded in the temporal records

\* Two devices told apart by fingerprint and name, and a query close to each.
TemporalDevices ==
    {[fingerprint |-> Fp(1000, 3, 68), device_name |-> "gate"],
     [fingerprint |-> Fp(26000, 3, 68), device_name |-> "door"]}
TemporalQueries == {Fp(1200, 3, 68), Fp(26100, 3, 68), FarQuery}

\* The device of a table entry.
DeviceOf(entry) == [fingerprint |-> entry.fingerprint, device_name |-> entry.device_name]
InTable(dev) == \E i \in 1..Len(device_database) : DeviceOf(device_database[i]) = dev

TemporalAdd ==
    /\ Len(device_database) < MaxTemporalDevices
    /\ \E dev \in TemporalDevices :
         /\ ~InTable(dev)
         /\ device_database' = fingerprinting_add_to_database(device_database,
                                   dev.fingerprint, dev.device_name)
    /\ db_op' = "add_to_database"
    /\ UNCHANGED <<temporal_records, m_query, m_id_in, m_id_out, m_confidence, m_matched>>
    /\ UNCHANGED ringVars
    /\ UNCHANGED nonRingVars

TemporalRemove ==
    /\ \E device_id \in 0..MaxTemporalDevices :
         device_database' = fingerprinting_remove_from_database(device_database, device_id)
    /\ db_op' = "remove_from_database"
    /\ UNCHANGED <<temporal_records, m_query, m_id_in, m_id_out, m_confidence, m_matched>>
    /\ UNCHANGED ringVars
    /\ UNCHANGED nonRingVars

TemporalMatch ==
    /\ TotalMatches(temporal_records, Len(temporal_records)) < MaxTemporalMatches
    /\ \E f \in TemporalQueries, id_in \in MatchIdInputs :
         \E r \in {fingerprinting_match_device(device_database, temporal_records,
                                               f, id_in, ZeroFingerprint)} :
            /\ m_query' = f
            /\ m_id_in' = id_in
            /\ m_id_out' = r.matched_device_id
            /\ m_matched' = r.matched_fingerprint
            /\ m_confidence' = r.confidence
            /\ temporal_records' = r.temporal
            /\ tr_owner' = IF Len(r.temporal) > Len(temporal_records)
                           THEN Append(tr_owner,
                                       DeviceOf(device_database[r.matched_device_id + 1]))
                           ELSE tr_owner
    /\ db_op' = "match_device"
    /\ UNCHANGED <<device_database, tr_matched>>
    /\ UNCHANGED nonRingVars

NextTemporal == TemporalAdd \/ TemporalRemove \/ TemporalMatch

\* C27 (as stated): after a device is deleted, the temporal record of every
\* remaining device is the one found under that device's current id, and no
\* record is found under the id of a device other than the one whose matches
\* created it.
C27_RecordsFollowDevices ==
    \A k \in 1..Len(temporal_records) :
        LET id == temporal_records[k].device_id
        IN /\ id < Len(device_database) =>
                  DeviceOf(device_database[id + 1]) = tr_owner[k]
           /\ \A i \in 1..Len(device_database) :
                  DeviceOf(device_database[i]) = tr_owner[k] => id = i - 1

(***************************************************************************)
(* analysis/protocol_infer.c : the analysis pipeline                       *)
(*                                                                         *)
(* The histograms, the clusters and the hypothesis of infer_state are the  *)
(* variables mark_histogram, space_histogram, clusters, cluster_count and  *)
(* hypothesis.  bins[i] of the code is bins[i + 1] here.  The pipeline is  *)
(* modelled for an empty frame buffer, which is what its frame steps are   *)
(* given below; description, a formatting of the other fields, is left out.*)
(***************************************************************************)
MAX_PULSE_BINS == 256
MAX_SYMBOL_TYPES == 8

U16(x) == x % 65536

ZeroTimingHistogram ==
    LET At(j) == 0
    IN [bins |-> ArrayOf(At, MAX_PULSE_BINS), num_bins |-> 0, bin_width_us |-> 0,
        min_width_us |-> 0, max_width_us |-> 0, peak_bin |-> 0, peak_count |-> 0,
        total_samples |-> 0]

ZeroClusters ==
    LET At(j) == [center_us |-> 0, spread_us |-> 0, count |-> 0, assigned_symbol |-> 0]
    IN ArrayOf(At, MAX_SYMBOL_TYPES)

ZeroHypothesis ==
    LET At(j) == [width_us |-> 0, tolerance_us |-> 0, symbol_value |-> 0, name |-> ""]
    IN [modulation |-> "MOD_UNKNOWN", encoding |-> "ENC_UNKNOWN", baud_rate |-> 0,
        symbol_period_us |-> 0, num_symbols |-> 0,
        symbols |-> ArrayOf(At, MAX_SYMBOL_TYPES),
        preamble_pattern |-> 0, preamble_length_bits |-> 0, payload_length_bits |-> 0,
        checksum_length_bits |-> 0, total_frame_bits |-> 0,
        modulation_confidence |-> 0, encoding_confidence |-> 0,
        timing_confidence |-> 0, structure_confidence |-> 0, overall_confidence |-> 0]

\* The widths of the pulses of one polarity, in the order of the buffer.
\* level == 1 is a mark, any other level a space.
WidthsOf(pulses, mark) ==
    LET Test(p) == (p.level = 1) = mark
        sel == SelectSeq(pulses, Test)
    IN [i \in 1..Len(sel) |-> sel[i].width_us]

\* The first loop of protocol_infer_build_histograms for one polarity.
MinWidth(widths) ==
    LET ws == {widths[i] : i \in 1..Len(widths)} \cup {65535}
    IN CHOOSE w \in ws : \A v \in ws : w <= v

MaxWidth(widths) ==
    LET ws == {widths[i] : i \in 1..Len(widths)} \cup {0}
    IN CHOOSE w \in ws : \A v \in ws : w >= v

\* num_bins and bin_width_us as lines 108-114 set them.
NumBins(widths) ==
    LET range == U16(MaxWidth(widths) - MinWidth(widths))
    IN IF range < MAX_PULSE_BINS THEN range ELSE MAX_PULSE_BINS

BinWidth(widths) ==
    LET range == U16(MaxWidth(widths) - MinWidth(widths))
    IN IF range > 0 THEN range \div NumBins(widths) ELSE 1

\* The uint16_t bin of lines 130-132: num_bins - 1 is computed in int and
\* stored to 16 bits.
BinOf(width, min_width, bin_width, num_bins) ==
    LET bin == U16((width - min_width) \div bin_width)
    IN IF bin >= num_bins THEN U16(num_bins - 1) ELSE bin

\* The bins[] indexes the fill loop increments for the widths of a polarity.
BinsIncremented(widths) ==
    LET min_w == MinWidth(widths)
        bw == BinWidth(widths)
        nb == NumBins(widths)
    IN { BinOf(widths[i], min_w, bw, nb) : i \in 1..Len(widths) }

\* protocol_infer_build_histograms for one polarity: h is the histogram as
\* the call finds it.  An increment of bins[bin] with bin >= 256 does not
\* store into bins.
build_histogram(widths, h) ==
    LET min_w == MinWidth(widths)
        bw == BinWidth(widths)
        nb == NumBins(widths)
        n == Len(widths)
        Hits(b) == Cardinality({ i \in 1..n : BinOf(widths[i], min_w, bw, nb) = b })
        At(j) == U16(h.bins[j] + Hits(j - 1))
        Peaks(bins) ==
            LET counts == { bins[j] : j \in 1..nb } \cup {0}
                max_count == CHOOSE c \in counts : \A d \in counts : c >= d
                first == CHOOSE j \in 1..nb :
                             /\ bins[j] = max_count
                             /\ \A k \in 1..(j - 1) : bins[k] < max_count
            IN [bins |-> bins, num_bins |-> nb, bin_width_us |-> bw,
                min_width_us |-> min_w, max_width_us |-> MaxWidth(widths),
                peak_bin |-> IF max_count = 0 THEN h.peak_bin ELSE first - 1,
                peak_count |-> max_count,
                total_samples |-> U16(h.total_samples + n)]
    IN With(ArrayOf(At, MAX_PULSE_BINS), Peaks)

\* The first n members of a set of numbers, in increasing order.
RECURSIVE FirstOf(_, _)
FirstOf(S, n) ==
    IF n = 0 \/ S = {} THEN <<>>
    ELSE LET m == CHOOSE x \in S : \A y \in S : x <= y
         IN <<m>> \o FirstOf(S \ {m}, n - 1)

\* protocol_infer_cluster_pulses: [clusters, cluster_count] after the call.
protocol_infer_cluster_pulses(mh, cl, count) ==
    IF mh.total_samples < 10 THEN [clusters |-> cl, cluster_count |-> count]
    ELSE LET IsPeak(i) ==
                 /\ mh.bins[i + 1] > mh.bins[i]
                 /\ mh.bins[i + 1] > mh.bins[i + 2]
                 /\ mh.bins[i + 1] > mh.total_samples \div 20
             peaks == FirstOf({ i \in 1..(mh.num_bins - 2) : IsPeak(i) }, 3)
             At(j) ==
                 IF j <= Len(peaks)
                 THEN [center_us |-> U16(mh.min_width_us + peaks[j] * mh.bin_width_us),
                       spread_us |-> U16(mh.bin_width_us * 2),
                       count |-> mh.bins[peaks[j] + 1],
                       assigned_symbol |-> j - 1]
                 ELSE cl[j]
         IN [clusters |-> ArrayOf(At, MAX_SYMBOL_TYPES), cluster_count |-> Len(peaks)]

protocol_infer_detect_modulation_type(pulses, count) ==
    LET n == Len(pulses)
        zero_count == Cardinality({ i \in 1..n : pulses[i].width_us > 1000 })
    IN IF n < 10 THEN "MOD_UNKNOWN"
       ELSE IF zero_count > n \div 3 THEN "MOD_OOK"
       ELSE IF count >= 2 THEN "MOD_FSK"
       ELSE "MOD_ASK"

RECURSIVE SumWidths(_, _)
SumWidths(widths, n) == IF n = 0 THEN 0 ELSE SumWidths(widths, n - 1) + widths[n]

protocol_infer_check_ook(pulses) ==
    LET spaces == WidthsOf(pulses, FALSE)
        marks == WidthsOf(pulses, TRUE)
    IN IF Len(spaces) = 0 \/ Len(marks) = 0 THEN FALSE
       ELSE LET avg_space == U16(SumWidths(spaces, Len(spaces)) \div Len(spaces))
                avg_mark == U16(SumWidths(marks, Len(marks)) \div Len(marks))
            IN avg_space > avg_mark * 2 \/ avg_mark > avg_space * 2

\* protocol_infer_detect_modulation: the two fields it assigns.
protocol_infer_detect_modulation(hyp, pulses, count) ==
    LET mod == protocol_infer_detect_modulation_type(pulses, count)
        conf == CASE mod = "MOD_OOK" -> IF protocol_infer_check_ook(pulses) THEN 90 ELSE 50
                  [] mod = "MOD_FSK" -> IF count >= 2 THEN 85 ELSE 50
                  [] mod = "MOD_ASK" -> IF count = 1 THEN 80 ELSE 50
                  [] OTHER -> 30
    IN [hyp EXCEPT !.modulation = mod, !.modulation_confidence = conf]

\* protocol_infer_detect_encoding with fewer than two frames.
protocol_infer_detect_encoding(hyp) ==
    [hyp EXCEPT !.encoding = "ENC_UNKNOWN", !.encoding_confidence = 40]

protocol_infer_estimate_symbol_period(cl, count) ==
    IF count = 0 THEN 0
    ELSE LET cs == { cl[j].center_us : j \in 1..count } \cup {65535}
         IN CHOOSE c \in cs : \A d \in cs : c <= d

\* protocol_infer_calculate_timing_stats followed by the comparisons of
\* protocol_infer_analyze_timing.  std_dev is the square root of the
\* variance cut to an integer, so std_dev < k exactly when variance < k * k.
\* The sums stay below 2^31 for the widths enumerated.
TimingConfidence(pulses) ==
    LET n == Len(pulses)
        widths == [i \in 1..n |-> pulses[i].width_us]
        mean == IF n = 0 THEN 0 ELSE U16(SumWidths(widths, n) \div n)
        sq == [i \in 1..n |-> (widths[i] - mean) * (widths[i] - mean)]
        variance == IF n = 0 THEN 0 ELSE SumWidths(sq, n) \div n
        Below(k) == variance < k * k
    IN IF Below(mean \div 10) THEN 90
       ELSE IF Below(mean \div 5) THEN 70
       ELSE 50

\* protocol_infer_analyze_timing: protocol_infer_estimate_baud_rate fills
\* symbol_period_us only when it holds 0, and divides by what it then holds.
protocol_infer_analyze_timing(hyp, pulses, cl, count) ==
    LET period == protocol_infer_estimate_symbol_period(cl, count)
        held == IF hyp.symbol_period_us = 0 THEN period ELSE hyp.symbol_period_us
        baud == IF held = 0 THEN 0 ELSE 1000000 \div held
    IN [hyp EXCEPT !.baud_rate = baud, !.symbol_period_us = period,
                   !.timing_confidence = TimingConfidence(pulses)]

\* protocol_infer_detect_preamble with fewer than two frames.
protocol_infer_detect_preamble(hyp) ==
    [hyp EXCEPT !.preamble_pattern = 0, !.preamble_length_bits = 0]

\* protocol_infer_estimate_frame_structure with no frame.
protocol_infer_estimate_frame_structure(hyp) ==
    [hyp EXCEPT !.payload_length_bits = 0,
                !.total_frame_bits = hyp.preamble_length_bits + 0 + hyp.checksum_length_bits,
                !.structure_confidence = 40]

protocol_infer_generate_hypothesis(hyp, cl, count) ==
    LET At(j) ==
            IF j <= count
            THEN [width_us |-> cl[j].center_us, tolerance_us |-> cl[j].spread_us,
                  symbol_value |-> j - 1,
                  name |-> IF j = 1 THEN "SHORT" ELSE IF j = 2 THEN "LONG" ELSE "SYM"]
            ELSE hyp.symbols[j]
    IN [hyp EXCEPT !.overall_confidence =
                       (hyp.modulation_confidence + hyp.encoding_confidence +
                        hyp.timing_confidence + hyp.structure_confidence) \div 4,
                   !.num_symbols = count,
                   !.symbols = ArrayOf(At, MAX_SYMBOL_TYPES)]

\* The pipeline of protocol_infer_analyze after the histograms are built.
AnalyzeHypothesis(hyp, pulses, cl, count) ==
    LET h1 == protocol_infer_detect_modulation(hyp, pulses, count)
        h2 == protocol_infer_detect_encoding(h1)
        h3 == protocol_infer_analyze_timing(h2, pulses, cl, count)
        h4 == protocol_infer_detect_preamble(h3)
        h5 == protocol_infer_estimate_frame_structure(h4)
    IN protocol_infer_generate_hypothesis(h5, cl, count)

(***************************************************************************)
(* Harness: pulses of one of three streams are added, the analysis is run  *)
(* any number of times, and the state is reset.                            *)
(***************************************************************************)
MaxAnalysisPulses == 14   \* pulses added before a reset
MaxAnalysisRuns == 2      \* calls of the analysis before a reset

AnalysisStreams == {"ramp", "steady", "wide"}

\* "steady": every mark 500 us wide.  "wide": three marks to a space, the
\* marks 300, 400 and 900 us wide, the spaces from 650 us up.
AnalysisPulse(stream, n) ==
    CASE stream = "ramp" -> PulseAt(n)
      [] stream = "steady" ->
             [width_us |-> IF n % 2 = 0 THEN 500 ELSE 400 + 400 * ((n \div 2) % 2),
              level |-> (n + 1) % 2, timestamp_us |-> 650 * n]
      [] stream = "wide" ->
             [width_us |-> CASE n % 4 = 0 -> 300
                             [] n % 4 = 1 -> 400
                             [] n % 4 = 2 -> 900
                             [] OTHER -> 650 + 20 * (n \div 4),
              level |-> IF n % 4 = 3 THEN 0 ELSE 1, timestamp_us |-> 650 * n]

AnalysisIdle ==
    /\ mark_histogram = ZeroTimingHistogram /\ space_histogram = ZeroTimingHistogram
    /\ clusters = ZeroClusters /\ cluster_count = 0
    /\ hypothesis = ZeroHypothesis
    /\ pi_stream = "none" /\ pi_runs = 0 /\ pi_op = "none" /\ pi_bins = {}

fpRestVars == <<capture_state, fp_op, fp_path, fp_out>>

\* protocol_infer_add_pulse.
AnalysisAddPulse ==
    /\ ~fault
    /\ Len(infer_state.pulses) < MaxAnalysisPulses
    /\ \E stream \in (IF Len(infer_state.pulses) = 0 THEN AnalysisStreams ELSE {pi_stream}) :
           /\ infer_state' = protocol_infer_add_pulse(
                                 infer_state, AnalysisPulse(stream, Len(infer_state.pulses)))
           /\ pi_stream' = stream
    /\ pi_op' = "protocol_infer_add_pulse"
    /\ UNCHANGED <<mark_histogram, space_histogram, clusters, cluster_count, hypothesis,
                   pi_runs, pi_bins, streaming, fault>>
    /\ UNCHANGED fpRestVars
    /\ UNCHANGED nonAnalysisVars

\* protocol_infer_analyze.  An increment of bins[bin] with bin >= 256 is a
\* store outside infer_state: it changes memory that is not part of this
\* state, or it faults.
AnalysisAnalyze ==
    /\ ~fault
    /\ infer_state.frames = <<>>
    /\ pi_runs < MaxAnalysisRuns
    /\ pi_runs' = pi_runs + 1
    /\ pi_op' = "protocol_infer_analyze"
    /\ IF InsufficientData(infer_state)
       THEN UNCHANGED <<mark_histogram, space_histogram, clusters, cluster_count,
                        hypothesis, pi_bins, fault>>
       ELSE LET marks == WidthsOf(infer_state.pulses, TRUE)
                spaces == WidthsOf(infer_state.pulses, FALSE)
                written == { [level |-> 1, bin |-> b] : b \in BinsIncremented(marks) } \cup
                           { [level |-> 0, bin |-> b] : b \in BinsIncremented(spaces) }
            IN \E mh \in {build_histogram(marks, mark_histogram)} :
               \E cl \in {protocol_infer_cluster_pulses(mh, clusters, cluster_count)} :
                   /\ mark_histogram' = mh
                   /\ space_histogram' = build_histogram(spaces, space_histogram)
                   /\ clusters' = cl.clusters
                   /\ cluster_count' = cl.cluster_count
                   /\ hypothesis' = AnalyzeHypothesis(hypothesis, infer_state.pulses,
                                                      cl.clusters, cl.cluster_count)
                   /\ pi_bins' = written
                   /\ IF \E e \in written : e.bin >= MAX_PULSE_BINS
                      THEN fault' \in BOOLEAN
                      ELSE fault' = fault
    /\ UNCHANGED <<infer_state, streaming, pi_stream>>
    /\ UNCHANGED fpRestVars
    /\ UNCHANGED nonAnalysisVars

\* protocol_infer_reset: the clusters themselves are not cleared.
AnalysisReset ==
    /\ ~fault
    /\ infer_state' = protocol_infer_reset(infer_state)
    /\ cluster_count' = 0
    /\ mark_histogram' = ZeroTimingHistogram
    /\ space_histogram' = ZeroTimingHistogram
    /\ hypothesis' = ZeroHypothesis
    /\ pi_stream' = "none" /\ pi_runs' = 0 /\ pi_bins' = {}
    /\ pi_op' = "protocol_infer_reset"
    /\ UNCHANGED <<clusters, streaming, fault>>
    /\ UNCHANGED fpRestVars
    /\ UNCHANGED nonAnalysisVars

NextAnalysis == AnalysisAddPulse \/ AnalysisAnalyze \/ AnalysisReset

\* C25: every bins[] index that protocol_infer_build_histograms increments
\* is below num_bins of its histogram and below 256, whatever pulses are
\* held, pulses of one polarity that all have the same width included.
C25_BinIndexInRange ==
    \A e \in pi_bins :
        /\ e.bin < MAX_PULSE_BINS
        /\ e.bin < (IF e.level = 1 THEN mark_histogram.num_bins
                    ELSE space_histogram.num_bins)

\* The histogram and hypothesis fields the claim of C28 names.
AnalysisResult ==
    <<mark_histogram, space_histogram, hypothesis>>

\* C28: a run of protocol_infer_analyze that follows another one, with no
\* pulse or frame added and no reset in between, leaves the histograms
\* (bins, total_samples, peak) and the hypothesis (baud_rate and
\* symbol_period_us included) as the earlier run left them.
C28_AnalyzeIsIdempotent ==
    [][(AnalysisAnalyze /\ pi_op = "protocol_infer_analyze") =>
           AnalysisResult' = AnalysisResult]_vars

OthersIdle == KmIdle /\ StreamIdleVars /\ ThreatVarsIdle /\ StatIdle /\ RingIdle /\ AnalysisIdle

(***************************************************************************)
(* Specifications: one per engine, each holding the other engines idle.    *)
(***************************************************************************)

InitCodec == CodecInputs /\ FpIdle /\ DbIdle /\ EnginesIdle /\ IngestIdle /\ ThreadIdle
                 /\ OthersIdle
SpecCodec == InitCodec /\ [][NextCodec]_vars

InitFpCapture == CodecIdle /\ FpIdle /\ DbIdle /\ EnginesIdle /\ IngestIdle /\ ThreadIdle
                 /\ OthersIdle
SpecFpCapture == InitFpCapture /\ [][NextFpCapture]_vars

InitFpMatch == CodecIdle /\ FpIdle /\ DbIdle /\ EnginesIdle /\ IngestIdle /\ ThreadIdle
                 /\ OthersIdle
SpecFpMatch == InitFpMatch /\ [][NextFpMatch]_vars

InitFpDevices == CodecIdle /\ FpIdle /\ DbIdle /\ EnginesIdle /\ IngestIdle /\ ThreadIdle
                 /\ OthersIdle
SpecFpDevices == InitFpDevices /\ [][NextFpDevices]_vars

InitIngest == CodecIdle /\ FpIdle /\ DbIdle /\ EnginesIdle /\ IngestIdle /\ ThreadIdle
                 /\ OthersIdle
SpecIngest == InitIngest /\ [][NextIngest]_vars

InitThreads == CodecIdle /\ FpIdle /\ DbIdle /\ EnginesIdle /\ IngestIdle /\ ThreadIdle
                 /\ OthersIdle
SpecThreads == InitThreads /\ [][NextThreads]_vars

InitKMeans == CodecIdle /\ FpIdle /\ DbIdle /\ EnginesIdle /\ IngestIdle /\ ThreadIdle
                 /\ OthersIdle
SpecKMeans == InitKMeans /\ [][NextKMeans]_vars

InitStreamingRuns == CodecIdle /\ FpIdle /\ DbIdle /\ EnginesIdle /\ IngestIdle /\ ThreadIdle
                        /\ OthersIdle
SpecStreaming == InitStreamingRuns /\ [][NextStreaming]_vars

InitThreat == CodecIdle /\ FpIdle /\ DbIdle /\ EnginesIdle /\ IngestIdle /\ ThreadIdle
                 /\ OthersIdle
SpecThreat == InitThreat /\ [][NextThreat]_vars

InitWelford ==
    CodecIdle /\ FpIdle /\ DbIdle /\ EnginesIdle /\ IngestIdle /\ ThreadIdle /\ OthersIdle
SpecWelford == InitWelford /\ [][NextWelford]_vars

InitHistogram ==
    CodecIdle /\ FpIdle /\ DbIdle /\ EnginesIdle /\ IngestIdle /\ ThreadIdle /\ OthersIdle
SpecHistogram == InitHistogram /\ [][NextHistogram]_vars

InitFixedMul ==
    CodecIdle /\ FpIdle /\ DbIdle /\ EnginesIdle /\ IngestIdle /\ ThreadIdle /\ OthersIdle
SpecFixedMul == InitFixedMul /\ [][NextFixedMul]_vars

InitRing ==
    CodecIdle /\ FpIdle /\ DbIdle /\ EnginesIdle /\ IngestIdle /\ ThreadIdle /\ OthersIdle
SpecRing == InitRing /\ [][NextRing]_vars

InitTemporal ==
    CodecIdle /\ FpIdle /\ DbIdle /\ EnginesIdle /\ IngestIdle /\ ThreadIdle /\ OthersIdle
SpecTemporal == InitTemporal /\ [][NextTemporal]_vars

InitAnalysis ==
    CodecIdle /\ FpIdle /\ DbIdle /\ EnginesIdle /\ IngestIdle /\ ThreadIdle /\ OthersIdle
SpecAnalysis == InitAnalysis /\ [][NextAnalysis]_vars

====
